---- MODULE Spec2Model ----
(***************************************************************************)
(* Durable state engine of beadify: the append-only event log              *)
(* (.beads/events.jsonl), the derived SQLite cache (.beads/beads.db), the  *)
(* replay engine (log.rs) and the issue service (lib.rs), for up to two    *)
(* working copies that exchange their logs through the merge driver.       *)
(*                                                                         *)
(* Text is a sequence of atoms (an atom stands for a run of bytes), so     *)
(* that SQL REPLACE, JSON serialisation and byte offsets are computed, not *)
(* assumed.  Option<T> is a sequence of length 0 (None) or 1 (Some).       *)
(* An issue id "<prefix>-<serial:03>" is identified by its serial; IdText  *)
(* gives its text.  An event_id (a canonical ULID string, whose string     *)
(* order is its numeric order) is a natural number.                        *)
(***************************************************************************)
EXTENDS Integers, Sequences, FiniteSets, TLC

\* ---------------------------------------------------------------- bounds
MaxSerial == 2      \* issue serials handed out per working copy
MaxEventId == 3     \* event ids are drawn from 1..MaxEventId: events over all copies
MaxLog == 3         \* lines in one events.jsonl

Copies == {1, 2}
EventIds == 1..MaxEventId
IssueIds == 1..MaxSerial

\* ------------------------------------------------------------ Option<T>
None == <<>>
Some(x) == <<x>>
IsSome(o) == Len(o) = 1
Unwrap(o) == o[1]

\* ------------------------------------------------------------------ text
IdPrefix == "bd"
\* format!("{prefix}-{next:03}")
IdText(n) == <<IdPrefix, "-", "00" \o ToString(n)>>

\* format!("[deleted:{}]", deleted_id)
DeletedText(n) == <<"[deleted:">> \o IdText(n) \o <<"]">>

IsPrefixOf(p, s) == Len(p) <= Len(s) /\ SubSeq(s, 1, Len(p)) = p

\* instr(s, p) > 0
Contains(s, p) == \E i \in 1..(Len(s) - Len(p) + 1) : SubSeq(s, i, i + Len(p) - 1) = p

\* SQLite REPLACE(s, p, r): left to right, non-overlapping; p is not empty
RECURSIVE Replace(_, _, _)
Replace(s, p, r) ==
  IF Len(s) < Len(p) THEN s
  ELSE IF IsPrefixOf(p, s)
       THEN r \o Replace(SubSeq(s, Len(p) + 1, Len(s)), p, r)
       ELSE <<Head(s)>> \o Replace(Tail(s), p, r)

\* SQLite "x LIKE '%p%'" for a pattern p made of an issue id: it is true of
\* every x that contains p (and, being case-insensitive, of some x that
\* REPLACE leaves alone)
Like(s, p) == Contains(s, p)

\* ------------------------------------------------------------------ JSON
\* A JSON object is a record; its members are typed by their key.
TextKeys == {"title", "description", "design", "acceptance_criteria", "notes"}
AtomKeys == {"kind", "status"}
\* the names of attached documents; the member is the hash of the content
DocNames == {"readme"}
\* serde_json::Map is a BTreeMap: members are written in key order
KeyOrder == <<"acceptance_criteria", "data", "description", "design", "documents",
              "kind", "notes", "priority", "readme", "status", "title">>

JString(t) == <<"\"">> \o t \o <<"\"">>

RECURSIVE to_string(_)
RECURSIVE SerMembers(_, _, _)
SerValue(k, v) ==
  IF k \in TextKeys \cup DocNames THEN JString(v)
  ELSE IF k \in AtomKeys THEN JString(<<v>>)
  ELSE IF k = "priority" THEN <<ToString(v)>>
  ELSE to_string(v)
SerMembers(obj, i, first) ==
  IF i > Len(KeyOrder) THEN <<>>
  ELSE IF KeyOrder[i] \in DOMAIN obj
       THEN (IF first THEN <<>> ELSE <<",">>)
            \o <<"\"" \o KeyOrder[i] \o "\":">> \o SerValue(KeyOrder[i], obj[KeyOrder[i]])
            \o SerMembers(obj, i + 1, FALSE)
       ELSE SerMembers(obj, i + 1, first)
\* serde_json::Value::to_string / serde_json::to_string
to_string(obj) == <<"{">> \o SerMembers(obj, 1, TRUE) \o <<"}">>

\* ------------------------------------------------------------ model.rs
UpdateFields == {"title", "kind", "priority", "status", "description", "design",
                 "acceptance_criteria", "notes", "data"}

\* IssueUpdate::default()
DefaultUpdate == [f \in UpdateFields |-> None]

\* a check that takes every update for a non-empty one
never_empty(u) == FALSE

\* IssueUpdate::is_empty: every field is None.  (model.rs lists the eight text
\* and scalar fields; data is the ninth field of the IssueUpdate that
\* lib.rs:362 builds and db.rs:345 applies.)
is_empty(u) == \A f \in UpdateFields : ~IsSome(u[f])

\* serde_json::to_value(update): skip_serializing_if = "Option::is_none"
UpdateToValue(u) == [f \in {g \in UpdateFields : IsSome(u[g])} |-> Unwrap(u[f])]

\* serde_json::from_value::<IssueUpdate>: #[serde(default)] on every field
UpdateFromValue(v) == [f \in UpdateFields |-> IF f \in DOMAIN v THEN Some(v[f]) ELSE None]

\* ---------------------------------------------------------------- db.rs
\* db::create_schema: the tables of one cache.  A label is identified by its
\* name (add_label_to_issue looks a label up by name before it creates one).
MetaKeys == {"id_prefix", "last_issue_serial", "last_event_id", "last_processed_offset"}
EmptyIssues == [i \in {} |-> None]
EmptyDb == [issues |-> EmptyIssues, dependencies |-> {}, labels |-> {}, issue_labels |-> {},
            meta |-> [k \in MetaKeys |-> None]]

Put(f, k, v) == [x \in (DOMAIN f) \cup {k} |-> IF x = k THEN v ELSE f[x]]
Drop(f, k) == [x \in (DOMAIN f) \ {k} |-> f[x]]

\* db::get_issue: the row as an Issue, or None
get_issue(db, id) == IF id \in DOMAIN db.issues THEN Some(db.issues[id]) ELSE None

\* db::upsert_issue: INSERT ... ON CONFLICT(id) DO UPDATE SET every column
upsert_issue(db, issue) ==
  [db EXCEPT !.issues = Put(@, issue.id,
     [title |-> issue.title, kind |-> issue.kind, priority |-> issue.priority,
      status |-> issue.status, description |-> issue.description,
      design |-> issue.design, acceptance_criteria |-> issue.acceptance_criteria,
      notes |-> issue.notes,
      data |-> IF IsSome(issue.data) THEN Some(to_string(Unwrap(issue.data))) ELSE None])]

\* db::set_meta / db::get_meta
set_meta(db, key, value) == [db EXCEPT !.meta[key] = Some(value)]
get_meta(db, key) == db.meta[key]

\* db::add_dependency: INSERT OR IGNORE; with foreign keys enforced the insert
\* fails unless both ends are rows of issues
add_dependency(db, fk, issue_id, depends_on_id) ==
  IF fk /\ ~({issue_id, depends_on_id} \subseteq DOMAIN db.issues)
  THEN [ok |-> FALSE, db |-> db]
  ELSE [ok |-> TRUE,
        db |-> [db EXCEPT !.dependencies = @ \cup {<<issue_id, depends_on_id>>}]]

\* db::get_dependencies / db::get_dependents
get_dependencies(db, id) == {e[2] : e \in {d \in db.dependencies : d[1] = id}}
get_dependents(db, id) == {e[1] : e \in {d \in db.dependencies : d[2] = id}}

\* db::remove_dependency: an error when no row was deleted
remove_dependency(db, issue_id, depends_on_id) ==
  IF <<issue_id, depends_on_id>> \in db.dependencies
  THEN [ok |-> TRUE, db |-> [db EXCEPT !.dependencies = @ \ {<<issue_id, depends_on_id>>}]]
  ELSE [ok |-> FALSE, db |-> db]

\* ON DELETE CASCADE of dependencies, in force only with foreign keys enforced
Cascade(deps, fk, gone) ==
  IF fk THEN {d \in deps : d[1] \notin gone /\ d[2] \notin gone} ELSE deps
\* ON DELETE CASCADE of issue_labels.issue_id
CascadeLabels(assigned, fk, gone) ==
  IF fk THEN {a \in assigned : a[1] \notin gone} ELSE assigned

\* db::clear_state: DELETE FROM issues; DELETE FROM _meta
clear_state(db, fk) ==
  [issues |-> EmptyIssues,
   dependencies |-> Cascade(db.dependencies, fk, DOMAIN db.issues),
   labels |-> db.labels,
   issue_labels |-> CascadeLabels(db.issue_labels, fk, DOMAIN db.issues),
   meta |-> [k \in MetaKeys |-> None]]

\* db::delete_issue: DELETE FROM issues WHERE id = ?1
delete_issue_row(db, fk, issue_id) ==
  IF issue_id \in DOMAIN db.issues
  THEN [db EXCEPT !.issues = Drop(@, issue_id),
                  !.dependencies = Cascade(@, fk, {issue_id}),
                  !.issue_labels = CascadeLabels(@, fk, {issue_id})]
  ELSE db

\* a repair that rewrites the title column and leaves the data column alone
update_text_references_title_only(db, deleted_id) ==
  [db EXCEPT !.issues = [i \in DOMAIN @ |->
     [@[i] EXCEPT
        !.title = IF Like(@, IdText(deleted_id))
                  THEN Replace(@, IdText(deleted_id), DeletedText(deleted_id)) ELSE @]]]

\* db::update_text_references: two table-wide UPDATE ... REPLACE statements
update_text_references(db, deleted_id) ==
  [db EXCEPT !.issues = [i \in DOMAIN @ |->
     [@[i] EXCEPT
        !.title = IF Like(@, IdText(deleted_id))
                  THEN Replace(@, IdText(deleted_id), DeletedText(deleted_id)) ELSE @,
        !.data = IF IsSome(@) /\ Like(Unwrap(@), IdText(deleted_id))
                 THEN Some(Replace(Unwrap(@), IdText(deleted_id), DeletedText(deleted_id)))
                 ELSE @]]]

\* the usize that db::update_text_references returns: rows changed by each UPDATE
references_updated(db, deleted_id) ==
  Cardinality({i \in DOMAIN db.issues : Like(db.issues[i].title, IdText(deleted_id))})
  + Cardinality({i \in DOMAIN db.issues :
       IsSome(db.issues[i].data) /\ Like(Unwrap(db.issues[i].data), IdText(deleted_id))})

\* an update that inserts the row it does not find
apply_issue_update_inserting(db, id, update) ==
  upsert_issue(db,
    [id |-> id,
     title |-> IF IsSome(update.title) THEN Unwrap(update.title) ELSE <<>>,
     kind |-> IF IsSome(update.kind) THEN Unwrap(update.kind) ELSE "task",
     priority |-> IF IsSome(update.priority) THEN Unwrap(update.priority) ELSE 2,
     status |-> IF IsSome(update.status) THEN Unwrap(update.status) ELSE "open",
     description |-> update.description, design |-> update.design,
     acceptance_criteria |-> update.acceptance_criteria, notes |-> update.notes,
     data |-> update.data])

\* db::apply_issue_update: one UPDATE ... WHERE id = ?2 per present field
apply_issue_update(db, id, update) ==
  IF id \notin DOMAIN db.issues THEN db
  ELSE [db EXCEPT !.issues[id] =
     [title |-> IF IsSome(update.title) THEN Unwrap(update.title) ELSE @.title,
      kind |-> IF IsSome(update.kind) THEN Unwrap(update.kind) ELSE @.kind,
      priority |-> IF IsSome(update.priority) THEN Unwrap(update.priority) ELSE @.priority,
      status |-> IF IsSome(update.status) THEN Unwrap(update.status) ELSE @.status,
      description |-> IF IsSome(update.description) THEN update.description ELSE @.description,
      design |-> IF IsSome(update.design) THEN update.design ELSE @.design,
      acceptance_criteria |-> IF IsSome(update.acceptance_criteria)
                              THEN update.acceptance_criteria ELSE @.acceptance_criteria,
      notes |-> IF IsSome(update.notes) THEN update.notes ELSE @.notes,
      data |-> IF IsSome(update.data) THEN Some(to_string(Unwrap(update.data))) ELSE @.data]]

\* db::create_label: INSERT INTO labels; a row is [id, name] (color and
\* description are NULL in every row the service writes); id is the primary
\* key, the name column has no UNIQUE constraint
create_label(db, label) == [db EXCEPT !.labels = @ \cup {label}]
\* db::add_issue_label: INSERT OR IGNORE, PRIMARY KEY (issue_id, label_id)
add_issue_label(db, issue_id, label_id) ==
  [db EXCEPT !.issue_labels = @ \cup {<<issue_id, label_id>>}]
\* db::remove_issue_label: an error when no row was deleted
remove_issue_label(db, issue_id, label_id) ==
  IF <<issue_id, label_id>> \in db.issue_labels
  THEN [ok |-> TRUE, db |-> [db EXCEPT !.issue_labels = @ \ {<<issue_id, label_id>>}]]
  ELSE [ok |-> FALSE, db |-> db]

\* a lookup that finds no label
no_label_named(db, name) == {}
\* "SELECT ... FROM labels WHERE name = ?1": the rows of that name
labels_named(db, name) == {l \in db.labels : l.name = name}
\* ulid::Ulid::new(): an id no label row has
NewLabelId(db) ==
  CHOOSE n \in 1..(Cardinality(db.labels) + 1) : \A l \in db.labels : l.id # n

\* --------------------------------------------------------------- blob.rs
\* calculate_hash: the SHA-256 of the content as lowercase hexadecimal text;
\* different contents of the runs have different hashes
calculate_hash(content) == <<"sha256", content>>

\* validate_hash: 64 lowercase hexadecimal characters
validate_hash(hash) == Len(hash) = 2 /\ hash[1] = "sha256"

\* the store is the set of the files of .beads/blobs: name and bytes
FileOf(store, hash) == CHOOSE b \in store : b.hash = hash

\* a check that never finds the file
never_exists(store, hash) == FALSE

\* blob_path.exists()
blob_exists(store, hash) == \E b \in store : b.hash = hash

\* fs::File::create: the file is created, or truncated when it exists
file_create(store, hash) ==
  {b \in store : b.hash # hash} \cup {[hash |-> hash, content |-> <<>>]}

\* a write through a descriptor opened for appending
write_all_at_end(store, hash, bytes) ==
  {b \in store : b.hash # hash}
    \cup {[hash |-> hash, content |-> FileOf(store, hash).content \o bytes]}

\* a write that stops one byte short
write_all_short(store, hash, bytes) ==
  {b \in store : b.hash # hash}
    \cup {[hash |-> hash, content |-> SubSeq(bytes, 1, Len(bytes) - 1)]}

\* file.write_all(content) through a descriptor File::create returned: the
\* bytes go to offset 0 and what lies behind them stays
write_all(store, hash, bytes) ==
  {b \in store : b.hash # hash}
    \cup {[hash |-> hash,
           content |-> bytes \o SubSeq(FileOf(store, hash).content, Len(bytes) + 1,
                                       Len(FileOf(store, hash).content))]}

\* a call that returns the hash and writes no file
write_blob_skipped(store, content) == store

\* blob::write_blob run from its first to its last step: the file named by
\* the hash, created and written unless it exists
write_blob(store, content) ==
  IF blob_exists(store, calculate_hash(content)) THEN store
  ELSE write_all(file_create(store, calculate_hash(content)), calculate_hash(content), content)

\* blob::read_blob
read_blob(store, hash) ==
  IF ~validate_hash(hash) THEN [ok |-> FALSE, error |-> "InvalidHash", content |-> <<>>]
  ELSE IF ~blob_exists(store, hash) THEN [ok |-> FALSE, error |-> "BlobNotFound", content |-> <<>>]
  ELSE [ok |-> TRUE, error |-> "", content |-> FileOf(store, hash).content]

\* --------------------------------------------------------------- log.rs
\* model::Event as one line of events.jsonl; ts and actor are not read by
\* any projection and take a fixed number of bytes
EncodeEvent(e) ==
  <<"{\"event_id\":\"", ToString(e.event_id), "\",\"ts\":\"", "ts", "\",\"op\":\"", e.op,
    "\",\"id\":\"">> \o IdText(e.id) \o <<"\",\"actor\":\"", "actor", "\",\"data\":">>
  \o to_string(e.data) \o <<"}">>

\* bytes of one line: encoded.len() + 1
LineLen(e) == Len(EncodeEvent(e)) + 1

\* a writer that opens the file without append(true): the new line replaces it
write_event_truncating(lines, event) == <<event>>

\* log::write_event: the file after the append
write_event(lines, event) == Append(lines, event)

RECURSIVE FileLen(_)
FileLen(lines) == IF lines = <<>> THEN 0 ELSE LineLen(Head(lines)) + FileLen(Tail(lines))

\* byte offset at which line k + 1 starts
LineStart(lines, k) == FileLen(SubSeq(lines, 1, k))

\* model::OpKind, rename_all = "snake_case"; serde_json::from_str::<Event>
\* fails on a line whose op is no variant
OpKinds == {"create", "update", "comment", "link", "unlink", "archive"}
Parses(line) == line.op \in OpKinds
AllParse(lines) == \A k \in 1..Len(lines) : Parses(lines[k])

\* file.seek(start_offset) followed by reader.lines(), each line parsed:
\* from a line boundary the remaining lines; from the newline that ends a line
\* an empty line (skipped) and then the remaining lines; from inside a line a
\* fragment that is no JSON object; past the end nothing
ReadFrom(lines, start_offset) ==
  LET n == Len(lines) IN
  IF start_offset >= FileLen(lines)
  THEN [ok |-> TRUE, events |-> <<>>, offset |-> start_offset]
  ELSE LET k == CHOOSE j \in 0..(n - 1) :
                  LineStart(lines, j) <= start_offset /\ start_offset < LineStart(lines, j + 1)
       IN IF start_offset = LineStart(lines, k)
          THEN [ok |-> TRUE, events |-> SubSeq(lines, k + 1, n), offset |-> FileLen(lines)]
          ELSE IF start_offset = LineStart(lines, k + 1) - 1
          THEN [ok |-> TRUE, events |-> SubSeq(lines, k + 2, n), offset |-> FileLen(lines)]
          ELSE [ok |-> FALSE, events |-> <<>>, offset |-> start_offset]

\* the events left in the order of their lines
in_file_order(events) == events

\* events.sort_by(|a, b| a.event_id.cmp(&b.event_id)): a stable sort
RECURSIVE Insert(_, _)
Insert(sorted, e) ==
  IF sorted = <<>> THEN <<e>>
  ELSE IF Head(sorted).event_id <= e.event_id
       THEN <<Head(sorted)>> \o Insert(Tail(sorted), e)
       ELSE <<e>> \o sorted
RECURSIVE sort_by_event_id(_)
sort_by_event_id(events) ==
  IF events = <<>> THEN <<>>
  ELSE Insert(sort_by_event_id(SubSeq(events, 1, Len(events) - 1)), events[Len(events)])

\* log::apply_event
apply_event(db, fk, event) ==
  IF event.op = "create"
  THEN IF ~({"title", "kind", "priority"} \subseteq DOMAIN event.data)
       THEN [ok |-> FALSE, db |-> db]
       ELSE LET status == IF "status" \in DOMAIN event.data THEN event.data.status ELSE "open"
            IN IF status = "deleted" THEN [ok |-> TRUE, db |-> db]
               ELSE [ok |-> TRUE,
                     db |-> upsert_issue(db,
                       [id |-> event.id, title |-> event.data.title, kind |-> event.data.kind,
                        priority |-> event.data.priority, status |-> status,
                        description |-> None, design |-> None, acceptance_criteria |-> None,
                        notes |-> None, data |-> Some(event.data)])]
  ELSE IF event.op = "update"
  THEN LET update == UpdateFromValue(event.data)
       IN IF IsSome(update.status) /\ Unwrap(update.status) = "deleted"
          THEN [ok |-> TRUE,
                db |-> update_text_references(delete_issue_row(db, fk, event.id), event.id)]
          ELSE [ok |-> TRUE, db |-> apply_issue_update(db, event.id, update)]
  ELSE [ok |-> TRUE, db |-> db]

\* the loop "for event in &events { apply_event(&tx, event)?; }"
RECURSIVE ApplyEvents(_, _, _)
ApplyEvents(db, fk, events) ==
  IF events = <<>> THEN [ok |-> TRUE, db |-> db]
  ELSE LET r == apply_event(db, fk, Head(events))
       IN IF r.ok THEN ApplyEvents(r.db, fk, Tail(events)) ELSE r

\* a replay that starts at last_processed_offset instead of the first line
apply_all_events_from_offset(lines, db, fk) ==
  LET start_offset == IF IsSome(get_meta(db, "last_processed_offset"))
                      THEN Unwrap(get_meta(db, "last_processed_offset")) ELSE 0
      events == sort_by_event_id(ReadFrom(lines, start_offset).events)
      r == ApplyEvents(clear_state(db, fk), fk, events)
      withLast == IF events = <<>> THEN r.db
                  ELSE set_meta(r.db, "last_event_id", events[Len(events)].event_id)
  IN IF r.ok
     THEN [ok |-> TRUE, applied |-> Len(events), fell_back |-> FALSE,
           db |-> set_meta(withLast, "last_processed_offset", FileLen(lines))]
     ELSE [ok |-> FALSE, applied |-> 0, fell_back |-> FALSE, db |-> db]

\* a replay that stores the event_id of the last line of the file
apply_all_events_last_line(lines, db, fk) ==
  LET events == sort_by_event_id(lines)
      r == ApplyEvents(clear_state(db, fk), fk, events)
      withLast == IF events = <<>> THEN r.db
                  ELSE set_meta(r.db, "last_event_id", lines[Len(lines)].event_id)
  IN IF r.ok
     THEN [ok |-> TRUE, applied |-> Len(events), fell_back |-> FALSE,
           db |-> set_meta(withLast, "last_processed_offset", FileLen(lines))]
     ELSE [ok |-> FALSE, applied |-> 0, fell_back |-> FALSE, db |-> db]

\* a replay that keeps what it had applied when an event fails
apply_all_events_partial(lines, db, fk) ==
  LET events == sort_by_event_id(lines)
      r == ApplyEvents(clear_state(db, fk), fk, events)
      withLast == IF events = <<>> THEN r.db
                  ELSE set_meta(r.db, "last_event_id", events[Len(events)].event_id)
  IN IF ~AllParse(lines) THEN [ok |-> FALSE, applied |-> 0, fell_back |-> FALSE, db |-> db]
     ELSE IF r.ok
     THEN [ok |-> TRUE, applied |-> Len(events), fell_back |-> FALSE,
           db |-> set_meta(withLast, "last_processed_offset", FileLen(lines))]
     ELSE [ok |-> FALSE, applied |-> 0, fell_back |-> FALSE, db |-> r.db]

\* log::apply_all_events; an error drops the transaction, clear_state included
apply_all_events(lines, db, fk) ==
  LET events == sort_by_event_id(lines)
      r == ApplyEvents(clear_state(db, fk), fk, events)
      withLast == IF events = <<>> THEN r.db
                  ELSE set_meta(r.db, "last_event_id", events[Len(events)].event_id)
  IN IF ~AllParse(lines) THEN [ok |-> FALSE, applied |-> 0, fell_back |-> FALSE, db |-> db]
     ELSE IF r.ok
     THEN [ok |-> TRUE, applied |-> Len(events), fell_back |-> FALSE,
           db |-> set_meta(withLast, "last_processed_offset", FileLen(lines))]
     ELSE [ok |-> FALSE, applied |-> 0, fell_back |-> FALSE, db |-> db]

\* a check that takes every new line for a newer one
no_order_check(events, last_ulid) == FALSE

\* the loop of log::apply_incremental that looks for an event_id <= the last one
RECURSIVE OutOfOrder(_, _)
OutOfOrder(events, last_ulid) ==
  IF events = <<>> THEN FALSE
  ELSE IF IsSome(last_ulid) /\ Head(events).event_id <= Unwrap(last_ulid) THEN TRUE
  ELSE OutOfOrder(Tail(events), Some(Head(events).event_id))

\* an incremental replay that never falls back to a full one
apply_incremental_without_fallback(lines, db, fk) ==
  LET start_offset == IF IsSome(get_meta(db, "last_processed_offset"))
                      THEN Unwrap(get_meta(db, "last_processed_offset")) ELSE 0
      rd == ReadFrom(lines, start_offset)
      events == sort_by_event_id(rd.events)
      r == ApplyEvents(db, fk, events)
  IN IF ~rd.ok THEN [ok |-> FALSE, applied |-> 0, fell_back |-> FALSE, db |-> db]
     ELSE IF events = <<>> THEN [ok |-> TRUE, applied |-> 0, fell_back |-> FALSE, db |-> db]
     ELSE IF r.ok
          THEN [ok |-> TRUE, applied |-> Len(events), fell_back |-> FALSE,
                db |-> set_meta(set_meta(r.db, "last_event_id", events[Len(events)].event_id),
                                "last_processed_offset", rd.offset)]
          ELSE [ok |-> FALSE, applied |-> 0, fell_back |-> FALSE, db |-> db]

\* log::apply_incremental
apply_incremental(lines, db, fk) ==
  LET start_offset == IF IsSome(get_meta(db, "last_processed_offset"))
                      THEN Unwrap(get_meta(db, "last_processed_offset")) ELSE 0
      rd == ReadFrom(lines, start_offset)
      events == sort_by_event_id(rd.events)
      r == ApplyEvents(db, fk, events)
  IN IF ~rd.ok \/ ~AllParse(rd.events)
     THEN [ok |-> FALSE, applied |-> 0, fell_back |-> FALSE, db |-> db]
     ELSE IF events = <<>> THEN [ok |-> TRUE, applied |-> 0, fell_back |-> FALSE, db |-> db]
     ELSE IF OutOfOrder(events, get_meta(db, "last_event_id"))
          THEN [apply_all_events(lines, db, fk) EXCEPT !.fell_back = TRUE]
     ELSE IF r.ok
          THEN [ok |-> TRUE, applied |-> Len(events), fell_back |-> FALSE,
                db |-> set_meta(set_meta(r.db, "last_event_id", events[Len(events)].event_id),
                                "last_processed_offset", rd.offset)]
          ELSE [ok |-> FALSE, applied |-> 0, fell_back |-> FALSE, db |-> db]

\* log::next_event_ulid: Ulid::new() until the candidate is greater than the
\* stored last_event_id.  A ULID is 48 bits of wall-clock time and 80 random
\* bits: any id no log holds yet may come out.
next_event_ulid(db, used, candidate) ==
  /\ candidate \notin used
  /\ IsSome(get_meta(db, "last_event_id")) => candidate > Unwrap(get_meta(db, "last_event_id"))

\* log::append_create_event: the payload of the Create event
CreatePayload(issue) ==
  IF IsSome(issue.data)
  THEN [k \in (DOMAIN Unwrap(issue.data)) \cup {"title", "status"} |->
          IF k = "title" THEN issue.title
          ELSE IF k = "status" THEN issue.status
          ELSE Unwrap(issue.data)[k]]
  ELSE [title |-> issue.title, kind |-> issue.kind, priority |-> issue.priority,
        status |-> issue.status]

\* ---------------------------------------------------- beads-merge-driver
EventIdsOf(lines) == {lines[i].event_id : i \in 1..Len(lines)}
LinesOf(lines) == {lines[i] : i \in 1..Len(lines)}

\* the BTreeSet<String> iterated in order: every line starts with its
\* event_id, so distinct lines are ordered by it
RECURSIVE InOrder(_)
InOrder(set) ==
  IF set = {} THEN <<>>
  ELSE LET least == CHOOSE e \in set : \A f \in set : e.event_id <= f.event_id
       IN <<least>> \o InOrder(set \ {least})

\* main: read_lines of base, local and remote into one set, printed in order
merge_driver(base, local, remote) == InOrder(LinesOf(base) \cup LinesOf(local) \cup LinesOf(remote))

\* the merge base git hands to the driver: the lines both sides already share
CommonAncestor(local, remote) == SelectSeq(local, LAMBDA e : e \in LinesOf(remote))

\* ---------------------------------------------------------------- state
VARIABLES
  log,           \* log[w]: the lines of .beads/events.jsonl of working copy w
  db,            \* db[w]: the tables of .beads/beads.db of working copy w
  foreign_keys,  \* whether the SQLite build enforces foreign keys (no PRAGMA in the source)
  pending,       \* pending[w]: lines a pull is about to append to log[w]
  applied,       \* applied[w]: history of the events applied to db[w]
  last,          \* the last operation and how it ended
  trace,         \* trace[w]: the operations run on copy w (kept by the replay runs only)
  blobs,         \* blobs[w]: the files stored under .beads/blobs of working copy w
  writers,       \* the calls of write_blob in progress on copy 1, and the buffers written
  appenders      \* the calls of log::write_event in progress on one log file, and the file

vars == <<log, db, foreign_keys, pending, applied, last, trace, blobs, writers, appenders>>

\* the processes that call write_blob; a call is at one of its steps
Procs == {1, 2}
NoWriters ==
  [at |-> [p \in Procs |-> [pc |-> "idle", content |-> <<>>, hash |-> <<>>, created |-> FALSE]],
   returned |-> {}]

\* the processes that call log::write_event on one file; the file is the
\* sequence of the buffers written to it, each by one write call
NoAppenders ==
  [file |-> <<>>,
   at |-> [p \in Procs |-> [pc |-> "idle", event |-> <<>>, start |-> 0, offset |-> 0]]]

\* repo::init_repo: an empty log, the schema, id_prefix and last_issue_serial
InitDb == set_meta(set_meta(EmptyDb, "id_prefix", IdPrefix), "last_issue_serial", 0)

\* ids: the event_ids applied; last_of[i]: the event applied last to issue i
\* (0: none); synced: a sync succeeded since log[w] last changed
NoneApplied == [ids |-> {}, last_of |-> [i \in IssueIds |-> 0], synced |-> FALSE]

Outcome(op, w, id, other, result) ==
  [op |-> op, copy |-> w, id |-> id, other |-> other, result |-> result]

UsedEventIds == UNION {EventIdsOf(log[w]) \cup EventIdsOf(pending[w]) : w \in Copies}

\* history: the events of a run of ApplyEvents, in the order they were applied
RECURSIVE NoteApplied(_, _)
NoteApplied(a, events) ==
  IF events = <<>> THEN a
  ELSE NoteApplied([a EXCEPT !.ids = @ \cup {Head(events).event_id},
                              !.last_of[Head(events).id] = Head(events).event_id],
                   Tail(events))

Unsynced(a) == [a EXCEPT !.synced = FALSE]

\* the stored last_processed_offset, 0 when there is none
ProcessedOffset(w) ==
  IF IsSome(get_meta(db[w], "last_processed_offset"))
  THEN Unwrap(get_meta(db[w], "last_processed_offset")) ELSE 0

\* ----------------------------------------------------------------- lib.rs
\* next_issue_id, after the id_prefix lookup: its own committed transaction
NextSerial(d) ==
  (IF IsSome(get_meta(d, "last_issue_serial")) THEN Unwrap(get_meta(d, "last_issue_serial")) ELSE 0) + 1

\* the loop "for dep_id in depends_on { add_dependency(&tx, &issue_id, &dep_id)?; }"
RECURSIVE AddDependencies(_, _, _, _)
AddDependencies(d, fk, issue_id, depends_on) ==
  IF depends_on = <<>> THEN [ok |-> TRUE, db |-> d]
  ELSE LET r == add_dependency(d, fk, issue_id, Head(depends_on))
       IN IF r.ok THEN AddDependencies(r.db, fk, issue_id, Tail(depends_on)) ELSE r

\* create_issue_with_data.  appended = FALSE: write_event fails and the file is
\* as it was.  committed = FALSE: the process stops, or the commit fails, after
\* the event was appended.
create_issue_with_data(w, title, kind, priority, depends_on, data, candidate, appended, committed) ==
  IF ~IsSome(get_meta(db[w], "id_prefix"))
  THEN /\ last' = Outcome("create_issue", w, 0, 0, "MissingConfig")
       /\ UNCHANGED <<log, db, foreign_keys, pending, applied>>
  ELSE LET issue_id == NextSerial(db[w])
           serialDb == set_meta(db[w], "last_issue_serial", issue_id)
           issue == [id |-> issue_id, title |-> title, kind |-> kind, priority |-> priority,
                     status |-> "open", description |-> None, design |-> None,
                     acceptance_criteria |-> None, notes |-> None, data |-> data]
           event == [event_id |-> candidate, op |-> "create", id |-> issue_id,
                     data |-> CreatePayload(issue)]
           new_offset == FileLen(log[w]) + LineLen(event)
           tx == AddDependencies(upsert_issue(serialDb, issue), foreign_keys, issue_id, depends_on)
       IN /\ issue_id <= MaxSerial
          /\ Len(log[w]) < MaxLog
          /\ next_event_ulid(serialDb, UsedEventIds, candidate)
          /\ log' = IF appended THEN [log EXCEPT ![w] = write_event(@, event)] ELSE log
          /\ IF ~appended
             THEN /\ db' = [db EXCEPT ![w] = serialDb]
                  /\ applied' = applied
                  /\ last' = Outcome("create_issue", w, issue_id, 0, "Io")
             ELSE IF committed /\ tx.ok
             THEN /\ db' = [db EXCEPT ![w] =
                       set_meta(set_meta(tx.db, "last_event_id", candidate),
                                "last_processed_offset", new_offset)]
                  /\ applied' = [applied EXCEPT ![w] = NoteApplied(Unsynced(@), <<event>>)]
                  /\ last' = Outcome("create_issue", w, issue_id, 0, "ok")
             ELSE /\ db' = [db EXCEPT ![w] = serialDb]
                  /\ applied' = [applied EXCEPT ![w] = Unsynced(@)]
                  /\ last' = Outcome("create_issue", w, issue_id, 0,
                                     IF committed THEN "Database" ELSE "crash")
          /\ UNCHANGED <<foreign_keys, pending>>

\* update_issue
update_issue(w, id, update, candidate, appended, committed) ==
  IF is_empty(update)
  THEN /\ last' = Outcome("update_issue", w, id, 0, "EmptyUpdate")
       /\ UNCHANGED <<log, db, foreign_keys, pending, applied>>
  ELSE LET event == [event_id |-> candidate, op |-> "update", id |-> id,
                     data |-> UpdateToValue(update)]
           new_offset == FileLen(log[w]) + LineLen(event)
           tx == apply_issue_update(db[w], id, update)
       IN /\ Len(log[w]) < MaxLog
          /\ next_event_ulid(db[w], UsedEventIds, candidate)
          /\ log' = IF appended THEN [log EXCEPT ![w] = write_event(@, event)] ELSE log
          /\ IF ~appended
             THEN /\ UNCHANGED <<db, applied>>
                  /\ last' = Outcome("update_issue", w, id, 0, "Io")
             ELSE IF committed
             THEN /\ db' = [db EXCEPT ![w] =
                       set_meta(set_meta(tx, "last_event_id", candidate),
                                "last_processed_offset", new_offset)]
                  /\ applied' = [applied EXCEPT ![w] = NoteApplied(Unsynced(@), <<event>>)]
                  /\ last' = Outcome("update_issue", w, id, 0, "ok")
             ELSE /\ UNCHANGED db
                  /\ applied' = [applied EXCEPT ![w] = Unsynced(@)]
                  /\ last' = Outcome("update_issue", w, id, 0, "crash")
          /\ UNCHANGED <<foreign_keys, pending>>

\* delete_issue
delete_issue(w, issue_id, candidate, appended, committed) ==
  IF ~IsSome(get_issue(db[w], issue_id))
  THEN /\ last' = Outcome("delete_issue", w, issue_id, 0, "NotFound")
       /\ UNCHANGED <<log, db, foreign_keys, pending, applied>>
  ELSE LET update == [DefaultUpdate EXCEPT !.status = Some("deleted")]
           event == [event_id |-> candidate, op |-> "update", id |-> issue_id,
                     data |-> UpdateToValue(update)]
           new_offset == FileLen(log[w]) + LineLen(event)
           tx == update_text_references(delete_issue_row(db[w], foreign_keys, issue_id), issue_id)
       IN /\ Len(log[w]) < MaxLog
          /\ next_event_ulid(db[w], UsedEventIds, candidate)
          /\ log' = IF appended THEN [log EXCEPT ![w] = write_event(@, event)] ELSE log
          /\ IF ~appended
             THEN /\ UNCHANGED <<db, applied>>
                  /\ last' = Outcome("delete_issue", w, issue_id, 0, "Io")
             ELSE IF committed
             THEN /\ db' = [db EXCEPT ![w] =
                       set_meta(set_meta(tx, "last_event_id", candidate),
                                "last_processed_offset", new_offset)]
                  /\ applied' = [applied EXCEPT ![w] = NoteApplied(Unsynced(@), <<event>>)]
                  /\ last' = Outcome("delete_issue", w, issue_id, 0, "ok")
             ELSE /\ UNCHANGED db
                  /\ applied' = [applied EXCEPT ![w] = Unsynced(@)]
                  /\ last' = Outcome("delete_issue", w, issue_id, 0, "crash")
          /\ UNCHANGED <<foreign_keys, pending>>

\* add_issue_dependency
add_issue_dependency(w, issue_id, depends_on_id) ==
  LET tx == add_dependency(db[w], foreign_keys, issue_id, depends_on_id)
      result == IF ~IsSome(get_issue(db[w], issue_id)) THEN "NotFound"
                ELSE IF ~IsSome(get_issue(db[w], depends_on_id)) THEN "NotFound"
                ELSE IF issue_id = depends_on_id THEN "SelfDependency"
                ELSE IF tx.ok THEN "ok" ELSE "Database"
  IN /\ db' = IF result = "ok" THEN [db EXCEPT ![w] = tx.db] ELSE db
     /\ last' = Outcome("add_dependency", w, issue_id, depends_on_id, result)
     /\ UNCHANGED <<log, foreign_keys, pending, applied>>

\* remove_issue_dependency
remove_issue_dependency(w, issue_id, depends_on_id) ==
  LET tx == remove_dependency(db[w], issue_id, depends_on_id)
  IN /\ db' = [db EXCEPT ![w] = tx.db]
     /\ last' = Outcome("remove_dependency", w, issue_id, depends_on_id,
                        IF tx.ok THEN "ok" ELSE "NotFound")
     /\ UNCHANGED <<log, foreign_keys, pending, applied>>

\* validate_label_name; a name is a sequence of characters
MaxLabelLen == 50
Whitespace == {" "}
NameChars == {"u", "i", "1", "-", "_"}
validate_label_name(name) ==
  IF \A k \in 1..Len(name) : name[k] \in Whitespace THEN "EmptyLabel"
  ELSE IF Len(name) > MaxLabelLen THEN "LabelTooLong"
  ELSE IF ~(\A k \in 1..Len(name) : name[k] \in NameChars) THEN "InvalidLabel"
  ELSE "ok"

\* add_label_to_issue: create_label, when no label has the name, and
\* add_issue_label, each in a transaction of its own
add_label_to_issue(w, issue_id, label_name) ==
  LET checked == validate_label_name(label_name)
      found == IsSome(get_issue(db[w], issue_id))
      existing_label == labels_named(db[w], label_name)
      label == IF existing_label # {}
               THEN CHOOSE l \in existing_label : \A m \in existing_label : l.id <= m.id
               ELSE [id |-> NewLabelId(db[w]), name |-> label_name]
      created == IF existing_label # {} THEN db[w] ELSE create_label(db[w], label)
  IN /\ db' = IF checked = "ok" /\ found
              THEN [db EXCEPT ![w] = add_issue_label(created, issue_id, label.id)]
              ELSE db
     /\ last' = Outcome("add_label", w, issue_id, label_name,
                        IF checked # "ok" THEN checked ELSE IF found THEN "ok" ELSE "NotFound")
     /\ UNCHANGED <<log, foreign_keys, pending, applied>>

\* remove_label_from_issue: the label looked up by name, then remove_issue_label
remove_label_from_issue(w, issue_id, label_name) ==
  LET named == labels_named(db[w], label_name)
      label == CHOOSE l \in named : \A m \in named : l.id <= m.id
      tx == remove_issue_label(db[w], issue_id, label.id)
      result == IF named = {} THEN "NotFound" ELSE IF tx.ok THEN "ok" ELSE "Custom"
  IN /\ db' = IF result = "ok" THEN [db EXCEPT ![w] = tx.db] ELSE db
     /\ last' = Outcome("remove_label", w, issue_id, label_name, result)
     /\ UNCHANGED <<log, foreign_keys, pending, applied>>

\* serde_json::from_str in db::get_issue, on the data texts that the runs
\* which attach documents store: no data object, or one holding documents
EmptyObject == [k \in {} |-> None]
ContentChoices == {<<"v1">>, <<"v2">>}
\* the objects a data column holds before a document is attached: none in it,
\* the payload of a replayed Create event, the data of an update or of a
\* create, the data in which a reference was repaired
PlainObjects ==
  {EmptyObject,
   [title |-> <<"fix">>, kind |-> "task", priority |-> 2, status |-> "open"],
   [notes |-> IdText(2)],
   [notes |-> DeletedText(2)],
   [kind |-> "task", priority |-> 2]}
StoredObjects ==
  PlainObjects \cup
  {Put(o, "documents", [n \in {d} |-> calculate_hash(c)]) :
     o \in PlainObjects, d \in DocNames, c \in ContentChoices}
from_str(text) ==
  IF \E v \in StoredObjects : to_string(v) = text
  THEN Some(CHOOSE v \in StoredObjects : to_string(v) = text)
  ELSE None

\* add_document_to_issue: write_blob, then get_issue, then update_issue with
\* the data object in which documents[doc_name] is the hash
add_document_to_issue(w, issue_id, doc_name, content, candidate, appended, committed) ==
  /\ blobs' = [blobs EXCEPT ![w] = write_blob(@, content)]
  /\ IF ~IsSome(get_issue(db[w], issue_id))
     THEN /\ last' = Outcome("add_document", w, issue_id, 0, "NotFound")
          /\ UNCHANGED <<log, db, foreign_keys, pending, applied>>
     ELSE LET stored == Unwrap(get_issue(db[w], issue_id)).data
              parsed == IF IsSome(stored) THEN from_str(Unwrap(stored)) ELSE None
              data == IF IsSome(parsed) THEN Unwrap(parsed) ELSE EmptyObject
              documents == IF "documents" \in DOMAIN data THEN data.documents ELSE EmptyObject
              update == [DefaultUpdate EXCEPT !.data =
                           Some(Put(data, "documents", Put(documents, doc_name, calculate_hash(content))))]
          IN update_issue(w, issue_id, update, candidate, appended, committed)

\* sync_repo(repo, full); r is the one run of the replay
sync_repo(w, full) ==
  \E r \in {IF full THEN apply_all_events(log[w], db[w], foreign_keys)
            ELSE apply_incremental(log[w], db[w], foreign_keys)} :
     /\ db' = [db EXCEPT ![w] = r.db]
     /\ applied' = [applied EXCEPT ![w] =
          IF ~r.ok THEN @
          ELSE IF full \/ r.fell_back
               THEN NoteApplied([NoneApplied EXCEPT !.synced = TRUE], sort_by_event_id(log[w]))
          ELSE NoteApplied([@ EXCEPT !.synced = TRUE],
                           sort_by_event_id(ReadFrom(log[w], ProcessedOffset(w)).events))]
     /\ last' = Outcome(IF full THEN "sync_full" ELSE "sync_incremental", w, 0, r.applied,
                        IF ~r.ok THEN "InvalidJson" ELSE IF r.fell_back THEN "fallback" ELSE "ok")
     /\ UNCHANGED <<log, foreign_keys, pending>>

\* git merges events.jsonl of copy v into copy w through the merge driver
Merge(w, v) ==
  /\ w # v
  /\ LinesOf(log[v]) \ LinesOf(log[w]) # {}
  /\ Cardinality(LinesOf(log[w]) \cup LinesOf(log[v])) <= MaxLog
  /\ log' = [log EXCEPT ![w] = merge_driver(CommonAncestor(log[w], log[v]), log[w], log[v])]
  /\ applied' = [applied EXCEPT ![w] = Unsynced(@)]
  /\ last' = Outcome("merge", w, 0, v, "ok")
  /\ UNCHANGED <<db, foreign_keys, pending>>

\* a pull that fast-forwards events.jsonl: the incoming lines are appended
Pull(w) ==
  /\ pending[w] # <<>>
  /\ log' = [log EXCEPT ![w] = @ \o pending[w]]
  /\ pending' = [pending EXCEPT ![w] = <<>>]
  /\ applied' = [applied EXCEPT ![w] = Unsynced(@)]
  /\ last' = Outcome("pull", w, 0, 0, "ok")
  /\ UNCHANGED <<db, foreign_keys>>

\* ---------------------------------------------------- inputs of the runs
TitleChoices == {<<"fix">>, <<"see">> \o IdText(2)}
DependsChoices == {<<>>} \cup {<<d>> : d \in IssueIds}
UpdateChoices ==
  { [DefaultUpdate EXCEPT !.status = Some("closed")],
    [DefaultUpdate EXCEPT !.status = Some("deleted")],
    [DefaultUpdate EXCEPT !.data = Some([notes |-> IdText(2)])] }

\* the ids next_event_ulid can return, and the least of them (the clock of the
\* writers running in step)
Fresh(w) == {c \in EventIds : next_event_ulid(db[w], UsedEventIds, c)}
LeastFresh(w) == {c \in Fresh(w) : \A d \in Fresh(w) : c <= d}

InitRepos ==
  /\ log = [w \in Copies |-> <<>>]
  /\ db = [w \in Copies |-> InitDb]
  /\ foreign_keys \in BOOLEAN
  /\ pending = [w \in Copies |-> <<>>]
  /\ applied = [w \in Copies |-> NoneApplied]
  /\ last = Outcome("init", 1, 0, 0, "ok")
  /\ trace = [w \in Copies |-> <<>>]
  /\ blobs = [w \in Copies |-> {}]
  /\ writers = NoWriters
  /\ appenders = NoAppenders

\* ------------------- Spec: one working copy; mutations, crashes and syncs
Init == InitRepos

CreateIssue ==
  /\ \E t \in TitleChoices, c \in LeastFresh(1), committed \in BOOLEAN :
       create_issue_with_data(1, t, "task", 2, <<>>, None, c, TRUE, committed)
  /\ UNCHANGED <<trace, blobs, writers, appenders>>
UpdateIssue ==
  /\ \E id \in IssueIds, u \in UpdateChoices, c \in LeastFresh(1), committed \in BOOLEAN :
       update_issue(1, id, u, c, TRUE, committed)
  /\ UNCHANGED <<trace, blobs, writers, appenders>>
DeleteIssue ==
  /\ \E id \in IssueIds, c \in LeastFresh(1), committed \in BOOLEAN :
       delete_issue(1, id, c, TRUE, committed)
  /\ UNCHANGED <<trace, blobs, writers, appenders>>
SyncFull == sync_repo(1, TRUE) /\ UNCHANGED <<trace, blobs, writers, appenders>>
SyncIncremental == sync_repo(1, FALSE) /\ UNCHANGED <<trace, blobs, writers, appenders>>

Next ==
  \/ CreateIssue
  \/ UpdateIssue
  \/ DeleteIssue
  \/ SyncFull
  \/ SyncIncremental

Spec == Init /\ [][Next]_vars

\* ------- SpecService: one working copy; every call runs to its end, no sync
ServiceCreate ==
  /\ \E t \in TitleChoices, deps \in DependsChoices, c \in LeastFresh(1) :
       create_issue_with_data(1, t, "task", 2, deps, None, c, TRUE, TRUE)
  /\ UNCHANGED <<trace, blobs, writers, appenders>>
ServiceUpdate ==
  /\ \E id \in IssueIds, u \in UpdateChoices, c \in LeastFresh(1) : update_issue(1, id, u, c, TRUE, TRUE)
  /\ UNCHANGED <<trace, blobs, writers, appenders>>
ServiceDelete ==
  /\ \E id \in IssueIds, c \in LeastFresh(1) : delete_issue(1, id, c, TRUE, TRUE)
  /\ UNCHANGED <<trace, blobs, writers, appenders>>
AddDependency ==
  /\ \E a \in IssueIds, b \in IssueIds : add_issue_dependency(1, a, b)
  /\ UNCHANGED <<trace, blobs, writers, appenders>>
RemoveDependency ==
  /\ \E a \in IssueIds, b \in IssueIds : remove_issue_dependency(1, a, b)
  /\ UNCHANGED <<trace, blobs, writers, appenders>>

NextService ==
  \/ ServiceCreate
  \/ ServiceUpdate
  \/ ServiceDelete
  \/ AddDependency
  \/ RemoveDependency

SpecService == InitRepos /\ [][NextService]_vars

\* ---- SpecCreate: a fresh repository on which only create_issue is called;
\* a call can fail at the append, at a dependency or at the commit.  trace[1]
\* holds the serials of the ids the calls returned.
CreateCall ==
  /\ \E t \in TitleChoices, deps \in DependsChoices, appended \in BOOLEAN, committed \in BOOLEAN :
       \E c \in Fresh(1) :
         create_issue_with_data(1, t, "task", 2, deps, None, c, appended, committed)
  /\ trace' = IF last'.result = "ok" THEN [trace EXCEPT ![1] = Append(@, last'.id)] ELSE trace
  /\ UNCHANGED <<blobs, writers, appenders>>

NextCreate == CreateCall

SpecCreate == InitRepos /\ [][NextCreate]_vars

\* ---- SpecWriter: one working copy and one writer; Ulid::new() returns any
\* id next_event_ulid lets through, and a call can fail after its append
WriterCreate ==
  /\ \E deps \in DependsChoices, committed \in BOOLEAN :
       \E c \in Fresh(1) :
         create_issue_with_data(1, <<"fix">>, "task", 2, deps, None, c, TRUE, committed)
  /\ UNCHANGED <<trace, blobs, writers, appenders>>
WriterUpdate ==
  /\ \E id \in IssueIds, committed \in BOOLEAN :
       \E c \in Fresh(1) :
         update_issue(1, id, [DefaultUpdate EXCEPT !.status = Some("closed")], c, TRUE, committed)
  /\ UNCHANGED <<trace, blobs, writers, appenders>>
WriterDelete ==
  /\ \E id \in IssueIds, committed \in BOOLEAN :
       \E c \in Fresh(1) : delete_issue(1, id, c, TRUE, committed)
  /\ UNCHANGED <<trace, blobs, writers, appenders>>

NextWriter ==
  \/ WriterCreate
  \/ WriterUpdate
  \/ WriterDelete

SpecWriter == InitRepos /\ [][NextWriter]_vars

\* ---- SpecCalls: one working copy; every call of the service with the ways
\* it can fail: the append fails, an issue is missing, a name is invalid
LabelChoices ==
  {<<"u", "i">>, <<>>, <<"u", " ", "i">>, [k \in 1..(MaxLabelLen + 1) |-> "u"]}

CallCreate ==
  /\ \E deps \in DependsChoices, appended \in BOOLEAN :
       \E c \in LeastFresh(1) :
         create_issue_with_data(1, <<"fix">>, "task", 2, deps, None, c, appended, TRUE)
  /\ UNCHANGED <<trace, blobs, writers, appenders>>
CallUpdate ==
  /\ \E id \in IssueIds, appended \in BOOLEAN :
       \E c \in LeastFresh(1) :
         update_issue(1, id, [DefaultUpdate EXCEPT !.status = Some("closed")], c, appended, TRUE)
  /\ UNCHANGED <<trace, blobs, writers, appenders>>
CallDelete ==
  /\ \E id \in IssueIds, appended \in BOOLEAN :
       \E c \in LeastFresh(1) : delete_issue(1, id, c, appended, TRUE)
  /\ UNCHANGED <<trace, blobs, writers, appenders>>
CallAddDependency ==
  /\ \E a \in IssueIds, b \in IssueIds : add_issue_dependency(1, a, b)
  /\ UNCHANGED <<trace, blobs, writers, appenders>>
CallAddLabel ==
  /\ \E id \in IssueIds, name \in LabelChoices : add_label_to_issue(1, id, name)
  /\ UNCHANGED <<trace, blobs, writers, appenders>>
CallAttachDocument ==
  /\ \E id \in IssueIds, d \in DocNames, content \in ContentChoices, appended \in BOOLEAN :
       \E c \in LeastFresh(1) : add_document_to_issue(1, id, d, content, c, appended, TRUE)
  /\ UNCHANGED <<trace, writers, appenders>>

NextCalls ==
  \/ CallCreate
  \/ CallUpdate
  \/ CallDelete
  \/ CallAddDependency
  \/ CallAddLabel
  \/ CallAttachDocument

SpecCalls == InitRepos /\ [][NextCalls]_vars

\* ---- SpecDocs: one working copy; issues are created, documents attached,
\* the cache replayed; an attach stops at any of its steps: inside write_blob
\* (after File::create, after write_all), at the append or before the commit
DocsCreate ==
  /\ \E c \in LeastFresh(1) :
       create_issue_with_data(1, <<"fix">>, "task", 2, <<>>, None, c, TRUE, TRUE)
  /\ UNCHANGED <<trace, blobs, writers, appenders>>
DocsAttach ==
  /\ \E id \in IssueIds, d \in DocNames, content \in ContentChoices,
        appended \in BOOLEAN, committed \in BOOLEAN :
       \E c \in LeastFresh(1) :
         add_document_to_issue(1, id, d, content, c, appended, committed)
  /\ UNCHANGED <<trace, writers, appenders>>
DocsCrashInWrite ==
  /\ \E content \in ContentChoices, written \in BOOLEAN :
       /\ ~blob_exists(blobs[1], calculate_hash(content))
       /\ blobs' = [blobs EXCEPT ![1] =
            IF written
            THEN write_all(file_create(@, calculate_hash(content)), calculate_hash(content), content)
            ELSE file_create(@, calculate_hash(content))]
  /\ last' = Outcome("add_document", 1, 0, 0, "crash")
  /\ UNCHANGED <<log, db, foreign_keys, pending, applied, trace, writers, appenders>>
DocsDelete ==
  /\ \E id \in IssueIds : \E c \in LeastFresh(1) : delete_issue(1, id, c, TRUE, TRUE)
  /\ UNCHANGED <<trace, blobs, writers, appenders>>
DocsSync ==
  /\ \E full \in BOOLEAN : sync_repo(1, full)
  /\ UNCHANGED <<trace, blobs, writers, appenders>>

NextDocs ==
  \/ DocsCreate
  \/ DocsAttach
  \/ DocsCrashInWrite
  \/ DocsDelete
  \/ DocsSync

SpecDocs == InitRepos /\ [][NextDocs]_vars

\* ---- SpecLabels: one working copy; issues are created and deleted, labels
\* added and removed by name, the cache replayed
LabelNames == {<<"u", "i">>, <<"u">>, <<"U">>}
LabelsCreate ==
  /\ \E c \in LeastFresh(1) :
       create_issue_with_data(1, <<"fix">>, "task", 2, <<>>, None, c, TRUE, TRUE)
  /\ UNCHANGED <<trace, blobs, writers, appenders>>
\* the issue has a label of that name
HasLabel(d, id, name) == \E l \in d.labels : l.name = name /\ <<id, l.id>> \in d.issue_labels
\* trace[1]: whether the issue had the label when add_label was called
LabelsAdd ==
  /\ \E id \in IssueIds, name \in LabelNames :
       /\ add_label_to_issue(1, id, name)
       /\ trace' = [trace EXCEPT ![1] = <<HasLabel(db[1], id, name)>>]
  /\ UNCHANGED <<blobs, writers, appenders>>
LabelsRemove ==
  /\ \E id \in IssueIds, name \in LabelNames : remove_label_from_issue(1, id, name)
  /\ trace' = [trace EXCEPT ![1] = <<>>]
  /\ UNCHANGED <<blobs, writers, appenders>>
LabelsDelete ==
  /\ \E id \in IssueIds : \E c \in LeastFresh(1) : delete_issue(1, id, c, TRUE, TRUE)
  /\ UNCHANGED <<trace, blobs, writers, appenders>>
LabelsSync ==
  /\ sync_repo(1, TRUE)
  /\ UNCHANGED <<trace, blobs, writers, appenders>>

NextLabels ==
  \/ LabelsCreate
  \/ LabelsAdd
  \/ LabelsRemove
  \/ LabelsDelete
  \/ LabelsSync

SpecLabels == InitRepos /\ [][NextLabels]_vars

\* ---- SpecUpdate: one working copy; update_issue is called with every
\* update of UpdateInputs, the empty one included, for ids with and without a
\* row.  trace[1]: the update passed to the last call of update_issue
UpdateInputs == UpdateChoices \cup {DefaultUpdate}
UpdCreate ==
  /\ \E c \in LeastFresh(1) :
       create_issue_with_data(1, <<"fix">>, "task", 2, <<>>, None, c, TRUE, TRUE)
  /\ trace' = [trace EXCEPT ![1] = <<>>]
  /\ UNCHANGED <<blobs, writers, appenders>>
UpdUpdate ==
  /\ \E id \in IssueIds, u \in UpdateInputs, appended \in BOOLEAN :
       /\ \E c \in LeastFresh(1) : update_issue(1, id, u, c, appended, TRUE)
       /\ trace' = [trace EXCEPT ![1] = <<u>>]
  /\ UNCHANGED <<blobs, writers, appenders>>
UpdDelete ==
  /\ \E id \in IssueIds : \E c \in LeastFresh(1) : delete_issue(1, id, c, TRUE, TRUE)
  /\ trace' = [trace EXCEPT ![1] = <<>>]
  /\ UNCHANGED <<blobs, writers, appenders>>

NextUpdate ==
  \/ UpdCreate
  \/ UpdUpdate
  \/ UpdDelete

SpecUpdate == InitRepos /\ [][NextUpdate]_vars

\* ---- SpecReplay: one working copy; every call runs to its end with its
\* event appended and its transaction committed; create_issue is called with
\* and without a data document; sync(full) replays the log the calls wrote
DataChoices ==
  {None, Some(EmptyObject), Some([notes |-> IdText(2)]), Some([kind |-> "task", priority |-> 2])}
ReplayCreate ==
  /\ \E data \in DataChoices :
       \E c \in LeastFresh(1) :
         create_issue_with_data(1, <<"fix">>, "task", 2, <<>>, data, c, TRUE, TRUE)
  /\ UNCHANGED <<trace, blobs, writers, appenders>>
ReplayUpdate ==
  /\ \E id \in IssueIds :
       \E c \in LeastFresh(1) :
         update_issue(1, id, [DefaultUpdate EXCEPT !.status = Some("closed")], c, TRUE, TRUE)
  /\ UNCHANGED <<trace, blobs, writers, appenders>>
ReplayDelete ==
  /\ \E id \in IssueIds : \E c \in LeastFresh(1) : delete_issue(1, id, c, TRUE, TRUE)
  /\ UNCHANGED <<trace, blobs, writers, appenders>>
ReplayAttach ==
  /\ \E id \in IssueIds, content \in ContentChoices :
       \E c \in LeastFresh(1) :
         add_document_to_issue(1, id, "readme", content, c, TRUE, TRUE)
  /\ UNCHANGED <<trace, writers, appenders>>
ReplaySync ==
  /\ log[1] # <<>>
  /\ sync_repo(1, TRUE)
  /\ UNCHANGED <<trace, blobs, writers, appenders>>

NextReplay ==
  \/ ReplayCreate
  \/ ReplayUpdate
  \/ ReplayDelete
  \/ ReplayAttach
  \/ ReplaySync

SpecReplay == InitRepos /\ [][NextReplay]_vars

\* ---- SpecRepair: the log two collaborators reach who share two issues and
\* then close and delete them independently; the merged log is replayed
MaxTail == 3        \* events after the two Create events
RepairTitles == {<<"fix">>, <<"see">> \o IdText(1), <<"see">> \o IdText(2)}
RepairCreateEvent(n, id, title) ==
  [event_id |-> n, op |-> "create", id |-> id,
   data |-> CreatePayload([id |-> id, title |-> title, kind |-> "task", priority |-> 2,
                           status |-> "open", description |-> None, design |-> None,
                           acceptance_criteria |-> None, notes |-> None, data |-> None])]
RepairUpdateEvent(n, id, status) ==
  [event_id |-> n, op |-> "update", id |-> id,
   data |-> UpdateToValue([DefaultUpdate EXCEPT !.status = Some(status)])]
RepairTails ==
  UNION {[1..n -> IssueIds \X {"closed", "deleted"}] : n \in 0..MaxTail}
RepairLog(t1, t2, tail) ==
  <<RepairCreateEvent(1, 1, t1), RepairCreateEvent(2, 2, t2)>>
    \o [k \in 1..Len(tail) |-> RepairUpdateEvent(k + 2, tail[k][1], tail[k][2])]

InitRepair ==
  /\ \E t1 \in RepairTitles, t2 \in RepairTitles, tail \in RepairTails :
       log = [w \in Copies |-> IF w = 1 THEN RepairLog(t1, t2, tail) ELSE <<>>]
  /\ db = [w \in Copies |-> InitDb]
  /\ foreign_keys \in BOOLEAN
  /\ pending = [w \in Copies |-> <<>>]
  /\ applied = [w \in Copies |-> NoneApplied]
  /\ last = Outcome("init", 1, 0, 0, "ok")
  /\ trace = [w \in Copies |-> <<>>]
  /\ blobs = [w \in Copies |-> {}]
  /\ writers = NoWriters
  /\ appenders = NoAppenders

RepairSync ==
  /\ ~applied[1].synced
  /\ sync_repo(1, TRUE)
  /\ UNCHANGED <<trace, blobs, writers, appenders>>

SpecRepair == InitRepair /\ [][RepairSync]_vars

\* ---- SpecAppend: two processes run log::write_event on the same file, one
\* step at a time: open, metadata().len(), write_all(&encoded),
\* write_all(b"\n"); every write call is atomic and lands at the end of the
\* file (append mode)
AppendMenu ==
  {[event_id |-> 1, op |-> "update", id |-> 1,
    data |-> UpdateToValue([DefaultUpdate EXCEPT !.status = Some("closed")])],
   [event_id |-> 2, op |-> "update", id |-> 2,
    data |-> UpdateToValue([DefaultUpdate EXCEPT !.data = Some([notes |-> IdText(2)])])]}
Newline == [kind |-> "newline", event |-> <<>>]
Encoded(e) == [kind |-> "event", event |-> <<e>>]
\* bytes of one buffer and of the file
BufferLen(b) == IF b.kind = "newline" THEN 1 ELSE LineLen(b.event[1]) - 1
RECURSIVE FileBytes(_)
FileBytes(file) == IF file = <<>> THEN 0 ELSE BufferLen(Head(file)) + FileBytes(Tail(file))

AppendOpen ==
  /\ \E p \in Procs, e \in AppendMenu :
       /\ appenders.at[p].pc = "idle"
       /\ \A q \in Procs : appenders.at[q].event # <<e>>
       /\ appenders' = [appenders EXCEPT !.at[p].pc = "opened", !.at[p].event = <<e>>]
  /\ UNCHANGED <<log, db, foreign_keys, pending, applied, last, trace, blobs, writers>>
\* file.metadata()?.len()
AppendLen ==
  /\ \E p \in Procs :
       /\ appenders.at[p].pc = "opened"
       /\ appenders' = [appenders EXCEPT !.at[p].pc = "measured",
                                         !.at[p].start = FileBytes(appenders.file)]
  /\ UNCHANGED <<log, db, foreign_keys, pending, applied, last, trace, blobs, writers>>
\* file.write_all(&encoded): the buffer goes to the end of the file
AppendEncoded ==
  /\ \E p \in Procs :
       /\ appenders.at[p].pc = "measured"
       /\ appenders' = [appenders EXCEPT !.file = Append(@, Encoded(appenders.at[p].event[1])),
                                         !.at[p].pc = "encoded"]
  /\ UNCHANGED <<log, db, foreign_keys, pending, applied, last, trace, blobs, writers>>
\* file.write_all(b"\n")
AppendNewline ==
  /\ \E p \in Procs :
       /\ appenders.at[p].pc = "encoded"
       /\ appenders' = [appenders EXCEPT !.file = Append(@, Newline), !.at[p].pc = "newline"]
  /\ UNCHANGED <<log, db, foreign_keys, pending, applied, last, trace, blobs, writers>>
\* Ok(start + encoded.len() + 1): the offset the caller stores
AppendReturn ==
  /\ \E p \in Procs :
       /\ appenders.at[p].pc = "newline"
       /\ appenders' = [appenders EXCEPT
            !.at[p].pc = "done",
            !.at[p].offset = appenders.at[p].start + (LineLen(appenders.at[p].event[1]) - 1) + 1]
  /\ UNCHANGED <<log, db, foreign_keys, pending, applied, last, trace, blobs, writers>>

NextAppend ==
  \/ AppendOpen
  \/ AppendLen
  \/ AppendEncoded
  \/ AppendNewline
  \/ AppendReturn

SpecAppend == InitRepos /\ [][NextAppend]_vars

\* ---- SpecDriver: beads-merge-driver run on three files.  A file is the
\* sequence of the lines BufRead::lines yields; a line is a text.
\* trace[1]: <<base, local, remote>>; trace[2]: what the run printed
MaxLines == 2
\* the lines of the runs in the order of String's Ord: "" < " " < "a" < "b"
LineOrder == << <<>>, <<" ">>, <<"a">>, <<"b">> >>
LineMenu == {LineOrder[i] : i \in 1..Len(LineOrder)}
Files == UNION {[1..n -> LineMenu] : n \in 0..MaxLines}

\* read_lines: every line that is not the empty string is inserted
read_lines(file, set) == set \cup {file[i] : i \in {j \in 1..Len(file) : file[j] # <<>>}}
\* "for line in lines { println!(...) }": the BTreeSet in ascending order
Printed(set) == SelectSeq(LineOrder, LAMBDA l : l \in set)
\* main of beads-merge-driver
driver_main(base, local, remote) ==
  Printed(read_lines(remote, read_lines(local, read_lines(base, {}))))

InitDriver ==
  /\ log = [w \in Copies |-> <<>>]
  /\ db = [w \in Copies |-> InitDb]
  /\ foreign_keys = FALSE
  /\ pending = [w \in Copies |-> <<>>]
  /\ applied = [w \in Copies |-> NoneApplied]
  /\ last = Outcome("init", 1, 0, 0, "ok")
  /\ \E base \in Files, local \in Files, remote \in Files :
       trace = [w \in Copies |-> IF w = 1 THEN <<base, local, remote>> ELSE <<>>]
  /\ blobs = [w \in Copies |-> {}]
  /\ writers = NoWriters
  /\ appenders = NoAppenders

DriverRun ==
  /\ last.op = "init"
  /\ trace' = [trace EXCEPT ![2] = <<driver_main(trace[1][1], trace[1][2], trace[1][3])>>]
  /\ last' = Outcome("merge_driver", 1, 0, 0, "ok")
  /\ UNCHANGED <<log, db, foreign_keys, pending, applied, blobs, writers, appenders>>
\* the driver run again with what it printed as each of its three files
DriverRunOnOutput ==
  /\ last.op = "merge_driver" /\ last.other = 0
  /\ trace' = [trace EXCEPT ![1] = <<trace[2][1], trace[2][1], trace[2][1]>>,
                            ![2] = <<driver_main(trace[2][1], trace[2][1], trace[2][1])>>]
  /\ last' = Outcome("merge_driver", 1, 0, 1, "ok")
  /\ UNCHANGED <<log, db, foreign_keys, pending, applied, blobs, writers, appenders>>

NextDriver ==
  \/ DriverRun
  \/ DriverRunOnOutput

SpecDriver == InitDriver /\ [][NextDriver]_vars

\* ---- SpecDeps: one working copy with dependencies and labels; every call
\* runs to its end; sync(full) runs at most twice in a row, trace[1] holds
\* the syncs run since the last other call
DepsCreate ==
  /\ \E deps \in DependsChoices :
       \E c \in LeastFresh(1) :
         create_issue_with_data(1, <<"fix">>, "task", 2, deps, None, c, TRUE, TRUE)
  /\ trace' = [trace EXCEPT ![1] = <<>>]
  /\ UNCHANGED <<blobs, writers, appenders>>
DepsAddDependency ==
  /\ \E a \in IssueIds, b \in IssueIds : add_issue_dependency(1, a, b)
  /\ trace' = [trace EXCEPT ![1] = <<>>]
  /\ UNCHANGED <<blobs, writers, appenders>>
DepsAddLabel ==
  /\ \E id \in IssueIds : add_label_to_issue(1, id, <<"u", "i">>)
  /\ trace' = [trace EXCEPT ![1] = <<>>]
  /\ UNCHANGED <<blobs, writers, appenders>>
DepsDelete ==
  /\ \E id \in IssueIds :
       \E c \in LeastFresh(1) : delete_issue(1, id, c, TRUE, TRUE)
  /\ trace' = [trace EXCEPT ![1] = <<>>]
  /\ UNCHANGED <<blobs, writers, appenders>>
DepsSyncFull ==
  /\ Len(trace[1]) < 2
  /\ sync_repo(1, TRUE)
  /\ trace' = [trace EXCEPT ![1] = Append(@, "sync_full")]
  /\ UNCHANGED <<blobs, writers, appenders>>

NextDeps ==
  \/ DepsCreate
  \/ DepsAddDependency
  \/ DepsAddLabel
  \/ DepsDelete
  \/ DepsSyncFull

SpecDeps == InitRepos /\ [][NextDeps]_vars

\* ------------- events a log can hold, for the runs that replay a given log
NewIssue(id, title, data) ==
  [id |-> id, title |-> title, kind |-> "task", priority |-> 2, status |-> "open",
   description |-> None, design |-> None, acceptance_criteria |-> None, notes |-> None,
   data |-> data]
\* what append_create_event and append_update_event write, less the event_id:
\* creates (the last one through create_issue_with_data with a data object,
\* whose payload has no kind and no priority), updates and a delete
EventMenu ==
  { [op |-> "create", id |-> 1, data |-> CreatePayload(NewIssue(1, <<"see">> \o IdText(2), None))],
    [op |-> "create", id |-> 2, data |-> CreatePayload(NewIssue(2, <<"fix">>, None))],
    [op |-> "update", id |-> 1,
     data |-> UpdateToValue([DefaultUpdate EXCEPT !.status = Some("closed")])],
    [op |-> "update", id |-> 2,
     data |-> UpdateToValue([DefaultUpdate EXCEPT !.status = Some("deleted")])],
    [op |-> "update", id |-> 1,
     data |-> UpdateToValue([DefaultUpdate EXCEPT !.data = Some([notes |-> IdText(2)])])],
    [op |-> "create", id |-> 2,
     data |-> CreatePayload(NewIssue(2, <<"fix">>, Some([notes |-> <<"n">>])))] }

WithEventId(m, e) == [event_id |-> e, op |-> m.op, id |-> m.id, data |-> m.data]

\* the sets of events with pairwise distinct event_ids, and the orders in
\* which the lines of one set can stand in a file
EventSets ==
  UNION { { {WithEventId(f[e], e) : e \in ids} : f \in [ids -> EventMenu] } : ids \in SUBSET EventIds }
Orders(set) ==
  {q \in [1..Cardinality(set) -> set] : \A i, j \in 1..Cardinality(set) : q[i] = q[j] => i = j}

\* a cache left by earlier work: two issues, an edge and the _meta of a log
\* that has since been replaced
PriorDb ==
  set_meta(set_meta(
    add_dependency(upsert_issue(upsert_issue(set_meta(InitDb, "last_issue_serial", 2),
                                             NewIssue(1, <<"old">>, None)),
                                NewIssue(2, <<"old">>, None)),
                   FALSE, 2, 1).db,
    "last_event_id", 2), "last_processed_offset", 7)

\* ------ SpecPermute: the same lines in two orders, each replayed in full
InitPermute ==
  /\ \E set \in EventSets :
       /\ Cardinality(set) <= MaxLog
       /\ log \in [Copies -> Orders(set)]
  /\ \E prior \in {InitDb, PriorDb} : db = [w \in Copies |-> prior]
  /\ foreign_keys \in BOOLEAN
  /\ pending = [w \in Copies |-> <<>>]
  /\ applied = [w \in Copies |-> NoneApplied]
  /\ last = Outcome("init", 1, 0, 0, "ok")
  /\ trace = [w \in Copies |-> <<>>]
  /\ blobs = [w \in Copies |-> {}]
  /\ writers = NoWriters
  /\ appenders = NoAppenders

PermuteSync ==
  \E w \in Copies :
    /\ trace[w] = <<>>
    /\ sync_repo(w, TRUE)
    /\ trace' = [trace EXCEPT ![w] = <<"sync_full">>]
    /\ UNCHANGED <<blobs, writers, appenders>>

NextPermute == PermuteSync

SpecPermute == InitPermute /\ [][NextPermute]_vars

\* -- SpecCatchUp: copy 1 replays A and catches up with B; copy 2 replays A ++ B
InitCatchUp ==
  /\ \E set \in EventSets :
       /\ Cardinality(set) <= MaxLog
       /\ \E q \in Orders(set), k \in 0..Cardinality(set) :
            /\ log = [w \in Copies |-> IF w = 1 THEN SubSeq(q, 1, k) ELSE q]
            /\ pending = [w \in Copies |-> IF w = 1 THEN SubSeq(q, k + 1, Len(q)) ELSE <<>>]
  /\ db = [w \in Copies |-> InitDb]
  /\ foreign_keys \in BOOLEAN
  /\ applied = [w \in Copies |-> NoneApplied]
  /\ last = Outcome("init", 1, 0, 0, "ok")
  /\ trace = [w \in Copies |-> <<>>]
  /\ blobs = [w \in Copies |-> {}]
  /\ writers = NoWriters
  /\ appenders = NoAppenders

ReplayPrefix ==
  /\ trace[1] = <<>>
  /\ \E full \in BOOLEAN :
       /\ sync_repo(1, full)
       /\ trace' = [trace EXCEPT ![1] = <<IF full THEN "sync_full" ELSE "sync_incremental">>]
       /\ UNCHANGED <<blobs, writers, appenders>>
AppendSuffix ==
  /\ Len(trace[1]) = 1
  /\ Pull(1)
  /\ trace' = [trace EXCEPT ![1] = Append(@, "pull")]
  /\ UNCHANGED <<blobs, writers, appenders>>
CatchUp ==
  /\ Len(trace[1]) = 2
  /\ sync_repo(1, FALSE)
  /\ trace' = [trace EXCEPT ![1] = Append(@, "sync_incremental")]
  /\ UNCHANGED <<blobs, writers, appenders>>
ReplayWhole ==
  /\ Len(trace[1]) = 3
  /\ trace[2] = <<>>
  /\ sync_repo(2, TRUE)
  /\ trace' = [trace EXCEPT ![2] = <<"sync_full">>]
  /\ UNCHANGED <<blobs, writers, appenders>>

NextCatchUp ==
  \/ ReplayPrefix
  \/ AppendSuffix
  \/ CatchUp
  \/ ReplayWhole

SpecCatchUp == InitCatchUp /\ [][NextCatchUp]_vars


\* ---- SpecCorrupt: the runs of SpecCatchUp over logs that can hold a line
\* that is no event (its op is no OpKind) and a Create whose payload lacks
\* kind and priority; the working copy ends with a sync(full)
CorruptMenu ==
  { [op |-> "create", id |-> 1, data |-> CreatePayload(NewIssue(1, <<"fix">>, None))],
    [op |-> "create", id |-> 2, data |-> CreatePayload(NewIssue(2, <<"fix">>, None))],
    [op |-> "update", id |-> 1,
     data |-> UpdateToValue([DefaultUpdate EXCEPT !.status = Some("closed")])],
    [op |-> "create", id |-> 2,
     data |-> CreatePayload(NewIssue(2, <<"fix">>, Some([notes |-> <<"n">>])))],
    [op |-> "delete", id |-> 1, data |-> EmptyObject] }
CorruptSets ==
  UNION { { {WithEventId(f[e], e) : e \in ids} : f \in [ids -> CorruptMenu] } : ids \in SUBSET EventIds }

InitCorrupt ==
  /\ \E set \in CorruptSets :
       /\ Cardinality(set) <= MaxLog
       /\ \E q \in Orders(set), k \in 0..Cardinality(set) :
            /\ log = [w \in Copies |-> IF w = 1 THEN SubSeq(q, 1, k) ELSE <<>>]
            /\ pending = [w \in Copies |-> IF w = 1 THEN SubSeq(q, k + 1, Len(q)) ELSE <<>>]
  /\ db = [w \in Copies |-> InitDb]
  /\ foreign_keys \in BOOLEAN
  /\ applied = [w \in Copies |-> NoneApplied]
  /\ last = Outcome("init", 1, 0, 0, "ok")
  /\ trace = [w \in Copies |-> <<>>]
  /\ blobs = [w \in Copies |-> {}]
  /\ writers = NoWriters
  /\ appenders = NoAppenders

ResyncFull ==
  /\ Len(trace[1]) = 3
  /\ sync_repo(1, TRUE)
  /\ trace' = [trace EXCEPT ![1] = Append(@, "sync_full")]
  /\ UNCHANGED <<blobs, writers, appenders>>

NextCorrupt ==
  \/ ReplayPrefix
  \/ AppendSuffix
  \/ CatchUp
  \/ ResyncFull

SpecCorrupt == InitCorrupt /\ [][NextCorrupt]_vars


\* ---- SpecBlob and SpecBlobRace: write_blob on copy 1, one step at a time:
\* the exists check, File::create, write_all, sync_all, the return.  In
\* SpecBlob a call begins when no other call is in progress; in SpecBlobRace
\* the calls of the processes interleave.
MaxBytes == 2
ByteValues == {"a", "b"}
Buffers == UNION {[1..n -> ByteValues] : n \in 0..MaxBytes}

BlobStep(p, pc, created) ==
  writers' = [writers EXCEPT !.at[p].pc = pc, !.at[p].created = created]

BlobBegin(p, b) ==
  /\ writers.at[p].pc = "idle"
  /\ writers' = [writers EXCEPT !.at[p] = [pc |-> "check", content |-> b,
                                            hash |-> calculate_hash(b), created |-> FALSE]]

BlobCall ==
  /\ \A q \in Procs : writers.at[q].pc = "idle"
  /\ \E p \in Procs, b \in Buffers : BlobBegin(p, b)
  /\ UNCHANGED <<log, db, foreign_keys, pending, applied, last, trace, blobs, appenders>>
BlobRaceCall ==
  /\ \E p \in Procs, b \in Buffers : BlobBegin(p, b)
  /\ UNCHANGED <<log, db, foreign_keys, pending, applied, last, trace, blobs, appenders>>

BlobCheck ==
  \E p \in Procs :
    /\ writers.at[p].pc = "check"
    /\ IF blob_exists(blobs[1], writers.at[p].hash)
       THEN BlobStep(p, "done", FALSE)
       ELSE BlobStep(p, "create", FALSE)
    /\ UNCHANGED <<log, db, foreign_keys, pending, applied, last, trace, blobs, appenders>>
BlobCreate ==
  \E p \in Procs :
    /\ writers.at[p].pc = "create"
    /\ blobs' = [blobs EXCEPT ![1] = file_create(@, writers.at[p].hash)]
    /\ BlobStep(p, "write", TRUE)
    /\ UNCHANGED <<log, db, foreign_keys, pending, applied, last, trace, appenders>>
BlobWrite ==
  \E p \in Procs :
    /\ writers.at[p].pc = "write"
    /\ blobs' = [blobs EXCEPT ![1] = write_all(@, writers.at[p].hash, writers.at[p].content)]
    /\ BlobStep(p, "sync", TRUE)
    /\ UNCHANGED <<log, db, foreign_keys, pending, applied, last, trace, appenders>>
BlobSync ==
  \E p \in Procs :
    /\ writers.at[p].pc = "sync"
    /\ BlobStep(p, "done", TRUE)
    /\ UNCHANGED <<log, db, foreign_keys, pending, applied, last, trace, blobs, appenders>>
\* Ok(hash): the caller has the hash of its buffer
BlobReturn ==
  \E p \in Procs :
    /\ writers.at[p].pc = "done"
    /\ writers' = [writers EXCEPT
         !.at[p].pc = "idle", !.at[p].created = FALSE,
         !.returned = @ \cup {[content |-> writers.at[p].content, hash |-> writers.at[p].hash]}]
    /\ UNCHANGED <<log, db, foreign_keys, pending, applied, last, trace, blobs, appenders>>

NextBlob ==
  \/ BlobCall
  \/ BlobCheck
  \/ BlobCreate
  \/ BlobWrite
  \/ BlobSync
  \/ BlobReturn

SpecBlob == InitRepos /\ [][NextBlob]_vars

NextBlobRace ==
  \/ BlobRaceCall
  \/ BlobCheck
  \/ BlobCreate
  \/ BlobWrite
  \/ BlobSync
  \/ BlobReturn

SpecBlobRace == InitRepos /\ [][NextBlobRace]_vars

\* ---- SpecMerge: two working copies that write, merge their logs and sync
MergeCreate ==
  /\ \E w \in Copies, t \in TitleChoices : \E c \in LeastFresh(w) :
       create_issue_with_data(w, t, "task", 2, <<>>, None, c, TRUE, TRUE)
  /\ UNCHANGED <<trace, blobs, writers, appenders>>
MergeUpdate ==
  /\ \E w \in Copies : \E c \in LeastFresh(w) :
       update_issue(w, 1, [DefaultUpdate EXCEPT !.status = Some("closed")], c, TRUE, TRUE)
  /\ UNCHANGED <<trace, blobs, writers, appenders>>
MergeLogs ==
  /\ \E w \in Copies, v \in Copies : Merge(w, v)
  /\ UNCHANGED <<trace, blobs, writers, appenders>>
\* a copy syncs once its log or its cache has changed since its last sync
MergeSync ==
  /\ \E w \in Copies, full \in BOOLEAN : ~applied[w].synced /\ sync_repo(w, full)
  /\ UNCHANGED <<trace, blobs, writers, appenders>>

NextMerge ==
  \/ MergeCreate
  \/ MergeUpdate
  \/ MergeLogs
  \/ MergeSync

SpecMerge == InitRepos /\ [][NextMerge]_vars

\* ------------------------------------------------------ dependency graph
\* the issues reached from the set S by one more edge, and by any number
FollowEdges(S, deps) == S \cup {e[2] : e \in {d \in deps : d[1] \in S}}
RECURSIVE ReachedFrom(_, _)
ReachedFrom(S, deps) ==
  IF FollowEdges(S, deps) = S THEN S ELSE ReachedFrom(FollowEdges(S, deps), deps)
\* b is reached from a by one edge or more
Reachable(deps, a, b) == b \in ReachedFrom({e[2] : e \in {d \in deps : d[1] = a}}, deps)
Acyclic(deps) == \A d \in deps : ~Reachable(deps, d[1], d[1])

\* ------------------------------------------- lib.rs: cascade and batch delete
MaxIssues == 3
MaxCalls == 2
CascadeIds == 1..MaxIssues

\* "ORDER BY issue_id": the ids of a set as a Vec in ascending order
RECURSIVE Ascending(_)
Ascending(ids) ==
  IF ids = {} THEN <<>>
  ELSE LET least == CHOOSE m \in ids : \A n \in ids : m <= n
       IN <<least>> \o Ascending(ids \ {least})

\* Iterator::rev
RECURSIVE Reversed(_)
Reversed(s) == IF s = <<>> THEN <<>> ELSE Append(Reversed(Tail(s)), Head(s))

\* a traversal that follows the issues an issue depends on
dependencies_of(cache, id) == get_dependencies(cache, id)

\* the order of the loop of delete_issue_cascade: all_dependents.iter().rev()
iter_rev(s) == Reversed(s)

\* the dependents the traversal follows
dependents_of(cache, id) == get_dependents(cache, id)

\* get_all_dependents_recursive_sorted: visit, with its visited set and its
\* result Vec; an id is pushed after its dependents, when get_issue finds it
RECURSIVE visit(_, _, _)
RECURSIVE visit_each(_, _, _)
visit(cache, id, acc) ==
  IF id \in acc.visited THEN acc
  ELSE LET after == visit_each(cache, Ascending(dependents_of(cache, id)),
                               [acc EXCEPT !.visited = @ \cup {id}])
       IN IF IsSome(get_issue(cache, id))
          THEN [after EXCEPT !.result = Append(@, id)]
          ELSE after
visit_each(cache, ids, acc) ==
  IF ids = <<>> THEN acc ELSE visit_each(cache, Tail(ids), visit(cache, Head(ids), acc))
get_all_dependents_recursive_sorted(cache, issue_id) ==
  visit_each(cache, Ascending(dependents_of(cache, issue_id)), [visited |-> {}, result |-> <<>>]).result

\* the event_id next_event_ulid returns for a writer alone on the log
NextEventId(st) ==
  CHOOSE c \in 1..(2 * MaxIssues + 1) :
    /\ next_event_ulid(st.db, EventIdsOf(st.log), c)
    /\ \A d \in 1..(c - 1) : ~next_event_ulid(st.db, EventIdsOf(st.log), d)

\* delete_issue as a function of the log and the cache of one working copy;
\* appended: append_update_event succeeded
delete_issue_on(st, fk, issue_id, appended) ==
  IF ~IsSome(get_issue(st.db, issue_id))
  THEN [log |-> st.log, db |-> st.db, result |-> "NotFound", dependents |-> <<>>]
  ELSE IF ~appended
  THEN [log |-> st.log, db |-> st.db, result |-> "Io", dependents |-> <<>>]
  ELSE LET update == [DefaultUpdate EXCEPT !.status = Some("deleted")]
           event == [event_id |-> NextEventId(st), op |-> "update", id |-> issue_id,
                     data |-> UpdateToValue(update)]
           new_offset == FileLen(st.log) + LineLen(event)
           tx == update_text_references(delete_issue_row(st.db, fk, issue_id), issue_id)
       IN [log |-> write_event(st.log, event),
           db |-> set_meta(set_meta(tx, "last_event_id", event.event_id),
                           "last_processed_offset", new_offset),
           result |-> "ok",
           dependents |-> Ascending(get_dependents(st.db, issue_id))]

\* the loop "for dependent in all_dependents.iter().rev()": run holds the log,
\* the cache, the deletions attempted in order and the results pushed
RECURSIVE delete_each(_, _, _, _)
delete_each(run, fk, ids, fails) ==
  IF ids = <<>> THEN run
  ELSE LET r == delete_issue_on(run, fk, Head(ids), Head(ids) \notin fails)
       IN delete_each([log |-> r.log, db |-> r.db,
                       attempts |-> Append(run.attempts, [id |-> Head(ids), result |-> r.result]),
                       results |-> IF r.result = "ok" THEN Append(run.results, Head(ids))
                                   ELSE run.results],
                      fk, Tail(ids), fails)

\* "results.push(delete_issue(repo, issue_id)?); Ok(results)"
root_result(loop, root, issue_id) ==
  [ok |-> root.result = "ok",
   results |-> IF root.result = "ok" THEN Append(loop.results, issue_id) ELSE <<>>]

\* delete_issue_cascade; fails: the issues whose event cannot be appended
delete_issue_cascade(st, fk, issue_id, fails) ==
  LET all_dependents == get_all_dependents_recursive_sorted(st.db, issue_id)
      loop == delete_each([log |-> st.log, db |-> st.db, attempts |-> <<>>, results |-> <<>>],
                          fk, iter_rev(all_dependents), fails)
      root == delete_issue_on(loop, fk, issue_id, issue_id \notin fails)
      returned == root_result(loop, root, issue_id)
  IN [log |-> root.log, db |-> root.db,
      attempts |-> Append(loop.attempts, [id |-> issue_id, result |-> root.result]),
      ok |-> returned.ok, results |-> returned.results]

\* delete_issues_batch: successes and failures in the order they were pushed
RECURSIVE delete_issues_batch(_, _, _, _, _)
delete_issues_batch(run, fk, issue_ids, cascade, fails) ==
  IF issue_ids = <<>> THEN run
  ELSE LET issue_id == Head(issue_ids)
           r == IF cascade
                THEN delete_issue_cascade(run, fk, issue_id, fails)
                ELSE LET one == delete_issue_on(run, fk, issue_id, issue_id \notin fails)
                     IN [log |-> one.log, db |-> one.db,
                         attempts |-> <<[id |-> issue_id, result |-> one.result]>>,
                         ok |-> one.result = "ok",
                         results |-> IF one.result = "ok" THEN <<issue_id>> ELSE <<>>]
       IN delete_issues_batch(
            [log |-> r.log, db |-> r.db,
             attempts |-> run.attempts \o r.attempts,
             successes |-> IF r.ok THEN run.successes \o r.results ELSE run.successes,
             failures |-> IF r.ok THEN run.failures ELSE Append(run.failures, issue_id)],
            fk, Tail(issue_ids), cascade, fails)

\* ---- SpecCascade: one working copy in which MaxIssues issues were created
\* and add_issue_dependency was called any number of times; then cascade and
\* batch deletes.  trace[1]: the deletions the last call attempted, in order;
\* trace[2]: what the call returned, and the calls made so far
RECURSIVE CreatedIssues(_)
CreatedIssues(n) ==
  IF n = 0 THEN [log |-> <<>>, db |-> InitDb]
  ELSE LET st == CreatedIssues(n - 1)
           issue == [id |-> n, title |-> <<"fix">>, kind |-> "task", priority |-> 2,
                     status |-> "open", description |-> None, design |-> None,
                     acceptance_criteria |-> None, notes |-> None, data |-> None]
           event == [event_id |-> n, op |-> "create", id |-> n, data |-> CreatePayload(issue)]
       IN [log |-> write_event(st.log, event),
           db |-> set_meta(set_meta(
                    upsert_issue(set_meta(st.db, "last_issue_serial", n), issue),
                    "last_event_id", n),
                    "last_processed_offset", FileLen(st.log) + LineLen(event))]

EdgeChoices == SUBSET {e \in CascadeIds \X CascadeIds : e[1] # e[2]}
BatchChoices ==
  {<<a>> : a \in CascadeIds} \cup
  {<<e[1], e[2]>> : e \in {f \in CascadeIds \X CascadeIds : f[1] # f[2]}}
\* no append fails, or every append of one issue's event does
FailChoices == {{}} \cup {{i} : i \in CascadeIds}

InitCascade ==
  /\ \E edges \in EdgeChoices :
       /\ log = [w \in Copies |-> IF w = 1 THEN CreatedIssues(MaxIssues).log ELSE <<>>]
       /\ db = [w \in Copies |->
                  IF w = 1 THEN [CreatedIssues(MaxIssues).db EXCEPT !.dependencies = edges]
                  ELSE InitDb]
  /\ foreign_keys \in BOOLEAN
  /\ pending = [w \in Copies |-> <<>>]
  /\ applied = [w \in Copies |-> NoneApplied]
  /\ last = Outcome("init", 1, 0, 0, "ok")
  /\ trace = [w \in Copies |-> <<>>]
  /\ blobs = [w \in Copies |-> {}]
  /\ writers = NoWriters
  /\ appenders = NoAppenders

CallsMade == IF trace[2] = <<>> THEN 0 ELSE trace[2].calls

CascadeCall ==
  /\ CallsMade < MaxCalls
  /\ \E issue_id \in CascadeIds, fails \in FailChoices :
       \E r \in {delete_issue_cascade([log |-> log[1], db |-> db[1]], foreign_keys,
                                      issue_id, fails)} :
         /\ log' = [log EXCEPT ![1] = r.log]
         /\ db' = [db EXCEPT ![1] = r.db]
         /\ trace' = [trace EXCEPT ![1] = r.attempts,
                                   ![2] = [ok |-> r.ok, successes |-> r.results, failures |-> <<>>,
                                           calls |-> CallsMade + 1]]
         /\ last' = Outcome("delete_cascade", 1, issue_id, 0, IF r.ok THEN "ok" ELSE "Err")
  /\ UNCHANGED <<foreign_keys, pending, applied, blobs, writers, appenders>>

BatchCall ==
  /\ CallsMade < MaxCalls
  /\ \E issue_ids \in BatchChoices, cascade \in BOOLEAN, fails \in FailChoices :
       \E r \in {delete_issues_batch([log |-> log[1], db |-> db[1], attempts |-> <<>>,
                                      successes |-> <<>>, failures |-> <<>>],
                                     foreign_keys, issue_ids, cascade, fails)} :
         /\ log' = [log EXCEPT ![1] = r.log]
         /\ db' = [db EXCEPT ![1] = r.db]
         /\ trace' = [trace EXCEPT ![1] = r.attempts,
                                   ![2] = [ok |-> TRUE, successes |-> r.successes,
                                           failures |-> r.failures, calls |-> CallsMade + 1]]
         /\ last' = Outcome("delete_batch", 1, 0, 0, "ok")
  /\ UNCHANGED <<foreign_keys, pending, applied, blobs, writers, appenders>>

NextCascade ==
  \/ CascadeCall
  \/ BatchCall

SpecCascade == InitCascade /\ [][NextCascade]_vars

\* ---- SpecDelete: delete_issue called on the caches of SpecCascade;
\* trace[2].dependents: the dependents of the DeleteResult it returned
DeleteCall ==
  /\ CallsMade < MaxCalls
  /\ \E issue_id \in CascadeIds, appended \in BOOLEAN :
       \E r \in {delete_issue_on([log |-> log[1], db |-> db[1]], foreign_keys,
                                 issue_id, appended)} :
         /\ log' = [log EXCEPT ![1] = r.log]
         /\ db' = [db EXCEPT ![1] = r.db]
         /\ trace' = [trace EXCEPT ![1] = <<[id |-> issue_id, result |-> r.result]>>,
                                   ![2] = [ok |-> r.result = "ok", dependents |-> r.dependents,
                                           calls |-> CallsMade + 1]]
         /\ last' = Outcome("delete_issue", 1, issue_id, 0, r.result)
  /\ UNCHANGED <<foreign_keys, pending, applied, blobs, writers, appenders>>

SpecDelete == InitCascade /\ [][DeleteCall]_vars

\* ----------------------------------------------------------------- claims
\* C1: sync(full) run on two orders of the same lines, whose event_ids are
\* pairwise distinct, from the same prior cache leaves the same cache: issue
\* rows, dependency rows and _meta (last_event_id, last_processed_offset).
C1_FullReplayIgnoresLineOrder ==
  (trace[1] = <<"sync_full">> /\ trace[2] = <<"sync_full">>) => db[1] = db[2]

\* both orders were replayed, they differ, and the replay built rows
C1_Witness ==
  /\ trace[1] = <<"sync_full">> /\ trace[2] = <<"sync_full">>
  /\ Len(log[1]) = MaxLog
  /\ log[1] # log[2]
  /\ log[1] # sort_by_event_id(log[1])
  /\ last.result = "ok"
  /\ DOMAIN db[1].issues = IssueIds

\* C2: two working copies that ran service operations, hold the same set of
\* log lines after exchanging them through the merge driver, and have each
\* run a sync that succeeded since, hold equal issue rows.
C2_CopiesConverge ==
  (/\ LinesOf(log[1]) = LinesOf(log[2])
   /\ applied[1].synced /\ applied[2].synced)
  => db[1].issues = db[2].issues

C4_CacheIsFoldOfEvents ==
  LET full == apply_all_events(log[1], db[1], foreign_keys)
      incremental == apply_incremental(log[1], db[1], foreign_keys)
  IN /\ full.ok /\ incremental.ok
     /\ db[1].issues = full.db.issues
     /\ incremental.db.issues = full.db.issues

\* C7: a successful add_dependency or remove_dependency leaves a dependency
\* edge set without a directed cycle without one.
C7_SucceededCallsKeepDag ==
  [][(/\ last'.op \in {"add_dependency", "remove_dependency"}
      /\ last'.result = "ok"
      /\ Acyclic(db[1].dependencies))
     => Acyclic(db'[1].dependencies)]_vars

\* C8: add_dependency(from, to) between two existing, different issues, with
\* from already reachable from to, fails with CircularDependency and inserts
\* no edge.
C8_CycleRejected ==
  [][(/\ last'.op = "add_dependency"
      /\ last'.id # last'.other
      /\ {last'.id, last'.other} \subseteq DOMAIN db[1].issues
      /\ Reachable(db[1].dependencies, last'.other, last'.id))
     => (last'.result = "CircularDependency" /\ db' = db)]_vars

\* C5: in every reachable state, every event whose line lies before
\* _meta.last_processed_offset in events.jsonl has been applied to the cache,
\* also after an operation whose cache commit did not happen and a service
\* mutation that ran before the next sync.
C5_EventsBeforeOffsetApplied ==
  \A k \in 1..Len(log[1]) :
    LineStart(log[1], k) <= ProcessedOffset(1) => log[1][k].event_id \in applied[1].ids

\* C6: when a mutation has appended its event and its cache transaction did
\* not commit, the next sync(incremental) succeeds, applies that event and
\* leaves the issue and dependency rows a full replay of the log builds.
C6_SyncRepairsUncommitted ==
  [][(last.result = "crash" /\ last'.op = "sync_incremental")
     => LET full == apply_all_events(log[1], db[1], foreign_keys)
        IN /\ last'.result \in {"ok", "fallback"}
           /\ log[1][Len(log[1])].event_id \in applied'[1].ids
           /\ db'[1].issues = full.db.issues
           /\ db'[1].dependencies = full.db.dependencies]_vars

\* C9: whenever the event applied last to an issue has status "deleted",
\* the issue has no row in the cache, and every applied event is still a line
\* of the log.
C9_DeletedIssueHasNoRow ==
  /\ applied[1].ids \subseteq EventIdsOf(log[1])
  /\ \A i \in IssueIds : \A k \in 1..Len(log[1]) :
       (/\ log[1][k].event_id = applied[1].last_of[i]
        /\ "status" \in DOMAIN log[1][k].data
        /\ log[1][k].data.status = "deleted")
       => i \notin DOMAIN db[1].issues

\* the text t with the occurrences of p, found by position from the left,
\* each replaced by r
FirstAt(t, p) == CHOOSE i \in 1..Len(t) :
  /\ SubSeq(t, i, i + Len(p) - 1) = p
  /\ \A j \in 1..(i - 1) : SubSeq(t, j, j + Len(p) - 1) # p
RECURSIVE Marked(_, _, _)
Marked(t, p, r) ==
  IF ~Contains(t, p) THEN t
  ELSE SubSeq(t, 1, FirstAt(t, p) - 1) \o r
       \o Marked(SubSeq(t, FirstAt(t, p) + Len(p), Len(t)), p, r)

\* C10: immediately after delete_issue(X) succeeds, X has no row, and every
\* remaining issue has each occurrence of X in its title and in its serialized
\* data replaced by [deleted:X] and is otherwise unchanged; an issue that did
\* not contain X is unchanged.
C10_ReferencesRepaired ==
  [][(last'.op = "delete_issue" /\ last'.result = "ok")
     => LET X == last'.id
            before == db[1].issues
            after == db'[1].issues
        IN /\ DOMAIN after = (DOMAIN before) \ {X}
           /\ \A i \in DOMAIN after :
                /\ after[i].title = Marked(before[i].title, IdText(X), DeletedText(X))
                /\ after[i].data = IF IsSome(before[i].data)
                                   THEN Some(Marked(Unwrap(before[i].data), IdText(X), DeletedText(X)))
                                   ELSE None
                /\ after[i] = [before[i] EXCEPT !.title = after[i].title, !.data = after[i].data]
                /\ (~Contains(before[i].title, IdText(X))
                    /\ ~(IsSome(before[i].data) /\ Contains(Unwrap(before[i].data), IdText(X))))
                   => after[i] = before[i]]_vars

\* a delete has just repaired a title and a data column that named the issue
C10_Witness ==
  /\ last.op = "delete_issue" /\ last.result = "ok"
  /\ \E i \in DOMAIN db[1].issues :
       /\ Contains(db[1].issues[i].title, DeletedText(last.id))
       /\ IsSome(db[1].issues[i].data)
       /\ Contains(Unwrap(db[1].issues[i].data), DeletedText(last.id))

\* C12: _meta.id_prefix is present, with the value the repository was
\* initialised with, in every state the repository can reach, also after
\* sync(full) and after the fallback of sync(incremental).
C12_IdPrefixKept == get_meta(db[1], "id_prefix") = Some(IdPrefix)

\* C13: every operation, service mutations, failing operations and sync in
\* either mode, leaves the previous content of events.jsonl a prefix of the
\* new content.
C13_LogOnlyGrows == [][IsPrefixOf(log[1], log'[1])]_vars

\* a mutation has just appended a line to a log that already held lines
C13_Witness ==
  /\ last.op \in {"create_issue", "update_issue", "delete_issue"}
  /\ last.copy = 1
  /\ Len(log[1]) = MaxLog

\* C11: over any sequence of create_issue calls on a fresh repository, the
\* serials of the returned ids are 1, 2, 3, ... in this order: strictly
\* increasing, contiguous from 1, none issued twice.
C11_SerialsContiguous == \A k \in 1..Len(trace[1]) : trace[1][k] = k

\* the part of C11 that does not depend on the calls that failed
C11_SerialsIncrease ==
  \A j \in 1..Len(trace[1]), k \in 1..Len(trace[1]) : j < k => trace[1][j] < trace[1][k]

\* C14: within one working copy, each event a service operation appends has
\* an event_id strictly greater than that of every event the writer appended
\* before.
C14_WriterIdsIncrease ==
  [][\A k \in (Len(log[1]) + 1)..Len(log'[1]) :
       \A j \in 1..Len(log[1]) : log'[1][k].event_id > log[1][j].event_id]_vars

\* the lines sync(incremental) reads as new, and whether one of them carries
\* an event_id that is not above the stored last_event_id
NewLines(w) == ReadFrom(log[w], ProcessedOffset(w)).events
HasStaleLine(w) ==
  /\ IsSome(get_meta(db[w], "last_event_id"))
  /\ \E k \in 1..Len(NewLines(w)) : NewLines(w)[k].event_id <= Unwrap(get_meta(db[w], "last_event_id"))

\* an Update that closes issue i stands on a line before the Create of i, the
\* Create has the smaller event_id, and no Create of i has a greater one than
\* the Update
ClosedBeforeCreated(lines, i) ==
  \E j \in 1..Len(lines), k \in 1..Len(lines) :
    /\ j < k
    /\ lines[j].op = "update" /\ lines[j].id = i
    /\ "status" \in DOMAIN lines[j].data /\ lines[j].data.status = "closed"
    /\ lines[k].op = "create" /\ lines[k].id = i
    /\ lines[k].event_id < lines[j].event_id
    /\ \A m \in 1..Len(lines) :
         (lines[m].op = "create" /\ lines[m].id = i) => lines[m].event_id < lines[j].event_id

\* C15: sync applies events in event_id order.  When the new lines hold an
\* event_id that is not above the stored last_event_id, sync(incremental)
\* leaves the issue rows of a full replay of the log; and a log in which the
\* Update that closes an issue precedes the Create of the issue, which has
\* the smaller event_id, leaves the issue present with status "closed".
C15_AppliedInEventIdOrder ==
  [][(last'.op = "sync_incremental" /\ last'.result \in {"ok", "fallback"})
     => /\ HasStaleLine(1)
           => db'[1].issues = ApplyEvents(EmptyDb, foreign_keys, sort_by_event_id(log[1])).db.issues
        /\ ClosedBeforeCreated(log[1], 1)
           => /\ IsSome(get_issue(db'[1], 1))
              /\ Unwrap(get_issue(db'[1], 1)).status = "closed"]_vars

\* sync(incremental) has met a stale line in a log whose closing Update
\* precedes the Create
C15_Witness ==
  /\ last.op = "sync_incremental" /\ last.result = "fallback"
  /\ ClosedBeforeCreated(log[1], 1)
  /\ IsSome(get_issue(db[1], 1))

\* C17: when appending the event fails inside create_issue, update_issue or
\* delete_issue, the call returns an error and no table of the cache has
\* changed, last_issue_serial, last_event_id and last_processed_offset
\* included.
C17_FailedAppendLeavesCache ==
  [][(last'.op \in {"create_issue", "update_issue", "delete_issue"} /\ last'.result = "Io")
     => db' = db]_vars

\* the errors of a call that names itself, a missing issue or an invalid label
RejectedResults == {"SelfDependency", "NotFound", "EmptyLabel", "LabelTooLong", "InvalidLabel"}

\* C18: add_dependency, add_label, attach_document or delete_issue that fails
\* with a self-dependency, a missing issue or an invalid label name leaves
\* the event log, every table of the cache and the blob store unchanged.
C18_RejectedCallChangesNothing ==
  [][(last'.op \in {"add_dependency", "add_label", "add_document", "delete_issue"}
      /\ last'.result \in RejectedResults)
     => /\ log' = log
        /\ db' = db
        /\ blobs' = blobs]_vars

\* C16: sync(full) run twice in a row on an unchanged log leaves the cache
\* exactly as it was after the first run.
C16_FullReplayIdempotent ==
  [][(trace[1] = <<"sync_full">> /\ trace'[1] = <<"sync_full", "sync_full">>)
     => db'[1] = db[1]]_vars

\* sync(full) has run twice in a row over a log that builds a row
C16_Witness ==
  /\ trace[1] = <<"sync_full", "sync_full">>
  /\ log[1] # <<>>
  /\ DOMAIN db[1].issues # {}

\* C19: the dependency edges and the label assignments that are in the cache
\* before sync(full) are in the cache again after it.
C19_ReplayKeepsEdgesAndLabels ==
  [][(last'.op = "sync_full" /\ last'.result = "ok")
     => /\ db[1].dependencies \subseteq db'[1].dependencies
        /\ db[1].issue_labels \subseteq db'[1].issue_labels]_vars

\* C20: in every reachable state both ends of every dependency row are
\* issues present in the cache.
C20_EdgesJoinPresentIssues ==
  \A e \in db[1].dependencies : e[1] \in DOMAIN db[1].issues /\ e[2] \in DOMAIN db[1].issues

\* the greatest of a non-empty set of event_ids
Greatest(ids) == CHOOSE m \in ids : \A n \in ids : n <= m

\* C21: in every reachable state _meta.last_event_id is the greatest event_id
\* among the events applied to the cache, and it is absent when no event has
\* been applied, also after sync(full) over an empty log.
C21_LastEventIdIsGreatestApplied ==
  \A w \in Copies :
    get_meta(db[w], "last_event_id") =
      IF applied[w].ids = {} THEN None ELSE Some(Greatest(applied[w].ids))

\* a replay has applied a log whose last line does not carry the greatest id
C21_Witness ==
  /\ last.op \in {"sync_full", "sync_incremental"} /\ last.result \in {"ok", "fallback"}
  /\ applied[1].ids = EventIdsOf(log[1])
  /\ Len(log[1]) >= 2
  /\ log[1][Len(log[1])].event_id < Greatest(applied[1].ids)

\* the ids for which the lines hold a Create event
CreatedIn(lines) == {lines[k].id : k \in {j \in 1..Len(lines) : lines[j].op = "create"}}

\* C22: in every reachable state each issue that has a row in the cache has
\* a Create event with its id in the log; an Update event for an id that has
\* no row never creates one.
C22_RowsHaveCreateEvents ==
  \A w \in Copies : DOMAIN db[w].issues \subseteq CreatedIn(log[w])

\* an Update for an id without a Create event has been applied, by the
\* service or by a replay, next to a row that has its Create event
C22_Witness ==
  /\ \E k \in 1..Len(log[1]) :
       /\ log[1][k].op = "update"
       /\ log[1][k].id \notin CreatedIn(log[1])
       /\ log[1][k].event_id \in applied[1].ids
  /\ DOMAIN db[1].issues # {}

\* a line that is no event, or a Create event whose payload does not decode
Undecodable(line) ==
  \/ ~Parses(line)
  \/ line.op = "create" /\ ~({"title", "kind", "priority"} \subseteq DOMAIN line.data)
HasUndecodable(lines) == \E k \in 1..Len(lines) : Undecodable(lines[k])

\* C23: a sync, full or incremental, that meets a line that cannot be parsed
\* as an event, or an event whose payload cannot be decoded, returns an
\* error, and the cache is exactly as it was before the call.
C23_CorruptLogLeavesCache ==
  [][(last'.op \in {"sync_full", "sync_incremental"})
     => /\ HasUndecodable(IF last'.op = "sync_full" THEN log[1] ELSE NewLines(1))
           => last'.result = "InvalidJson"
        /\ last'.result = "InvalidJson" => db' = db]_vars

\* a sync has failed on a log whose bad event comes after one that applies,
\* over a cache that holds rows
C23_Witness ==
  /\ last.op \in {"sync_full", "sync_incremental"} /\ last.result = "InvalidJson"
  /\ DOMAIN db[1].issues # {}
  /\ \E j \in 1..Len(log[1]), k \in 1..Len(log[1]) :
       /\ ~Undecodable(log[1][j]) /\ Parses(log[1][k]) /\ Undecodable(log[1][k])
       /\ log[1][j].event_id < log[1][k].event_id

\* C24: for every byte buffer b, read(write(b)) returns b, also after any
\* number of other blob writes in between.
C24_ReadReturnsWritten ==
  /\ \A p \in Procs :
       writers.at[p].pc = "done"
         => read_blob(blobs[1], writers.at[p].hash)
              = [ok |-> TRUE, error |-> "", content |-> writers.at[p].content]
  /\ \A r \in writers.returned :
       read_blob(blobs[1], r.hash) = [ok |-> TRUE, error |-> "", content |-> r.content]

\* a buffer is read back after the writes of two other buffers
C24_Witness ==
  /\ Cardinality(writers.returned) >= 3
  /\ \E r \in writers.returned : Len(r.content) = MaxBytes
  /\ \E p \in Procs : writers.at[p].pc = "done" /\ writers.at[p].created

\* C25: write is idempotent and content-addressed: writing the same bytes
\* again returns the same hash and leaves the existing file untouched, there
\* is one file per distinct content, and two writes return the same hash
\* only if their bytes are equal.
C25_WriteIdempotent ==
  [][/\ \A p \in Procs :
          (writers.at[p].pc # "idle" /\ writers'.at[p] # writers.at[p]
           /\ \E r \in writers.returned : r.content = writers.at[p].content)
            => /\ blobs' = blobs
               /\ [content |-> writers.at[p].content, hash |-> writers.at[p].hash]
                    \in writers.returned
     /\ \A r1 \in writers'.returned, r2 \in writers'.returned :
          r1.hash = r2.hash <=> r1.content = r2.content
     /\ (\A q \in Procs : writers'.at[q].pc = "idle")
          => Cardinality(blobs'[1]) = Cardinality({r.content : r \in writers'.returned})]_vars

\* the second write of a buffer has returned, next to the file of another
C25_Witness ==
  /\ \E p \in Procs :
       /\ writers.at[p].pc = "done" /\ ~writers.at[p].created
       /\ \E r \in writers.returned : r.content = writers.at[p].content /\ Len(r.content) = MaxBytes
  /\ Cardinality(blobs[1]) >= 2

\* C26: when two processes run write on identical bytes concurrently, under
\* every interleaving of their exists checks, creates, writes and fsyncs the
\* file named by the hash holds exactly those bytes once both calls have
\* returned.
C26_RacingWritersAgree ==
  \A p \in Procs, q \in Procs :
    (p # q /\ writers.at[p].pc = "done" /\ writers.at[q].pc = "done"
     /\ writers.at[p].content = writers.at[q].content)
      => read_blob(blobs[1], writers.at[p].hash)
           = [ok |-> TRUE, error |-> "", content |-> writers.at[p].content]

\* both calls found no file, created it and wrote it
C26_Witness ==
  /\ \A p \in Procs : writers.at[p].pc = "done" /\ writers.at[p].created
  /\ writers.at[1].content = writers.at[2].content
  /\ Len(writers.at[1].content) = MaxBytes
  /\ writers.returned = {}

\* C27: every hash bound under data.documents of a cached issue names a file
\* of the blob store, in every state, the states after an attach that stopped
\* at one of its steps included
DocumentsOf(w, id) ==
  LET stored == db[w].issues[id].data
      parsed == IF IsSome(stored) THEN from_str(Unwrap(stored)) ELSE None
  IN IF IsSome(parsed) /\ "documents" \in DOMAIN Unwrap(parsed)
     THEN Unwrap(parsed).documents ELSE EmptyObject
C27_BoundHashesHaveFiles ==
  \A id \in DOMAIN db[1].issues :
    \A n \in DOMAIN DocumentsOf(1, id) : blob_exists(blobs[1], DocumentsOf(1, id)[n])
\* every data column of the runs is one of the objects from_str knows
StoredDataParses ==
  \A id \in DOMAIN db[1].issues :
    IsSome(db[1].issues[id].data) => IsSome(from_str(Unwrap(db[1].issues[id].data)))
\* an attach stopped after File::create, a later attach of the same bytes bound
\* the hash, and the cache was replayed
C27_Witness ==
  /\ last.op = "sync_full" /\ last.result = "ok"
  /\ \E id \in DOMAIN db[1].issues :
       \E n \in DOMAIN DocumentsOf(1, id) :
         /\ blob_exists(blobs[1], DocumentsOf(1, id)[n])
         /\ FileOf(blobs[1], DocumentsOf(1, id)[n]).content = <<>>
\* the issues that depend on issue_id through one dependency row or more
TransitiveDependents(deps, issue_id) ==
  {x \in CascadeIds : Reachable(deps, x, issue_id)}
AllDeleted(attempts) == \A i \in 1..Len(attempts) : attempts[i].result = "ok"
NoAppendFailed(attempts) == \A i \in 1..Len(attempts) : attempts[i].result # "Io"
Listed(ids) == {ids[i] : i \in 1..Len(ids)}

\* C28: delete_cascade(R) over an acyclic graph, no deletion failing, deletes
\* every issue before each issue it depends on, and R last.
C28_DependentsBeforeDependencies ==
  [][ (last'.op = "delete_cascade" /\ Acyclic(db[1].dependencies) /\ AllDeleted(trace'[1]))
        => /\ trace'[1][Len(trace'[1])].id = last'.id
           /\ \A i \in 1..Len(trace'[1]), j \in 1..Len(trace'[1]) :
                <<trace'[1][i].id, trace'[1][j].id>> \in db[1].dependencies => i < j ]_vars

\* C29: delete_cascade(R) comes to its end on every graph, cycles included,
\* after at most one deletion for each dependent and one for R; when no append
\* fails, R and every issue that depended on R through one row or more are
\* absent from the cache afterwards and every other issue is still there.
C29_CascadeRemovesDependentsOnly ==
  [][ last'.op = "delete_cascade"
        => /\ Len(trace'[1]) <=
                Cardinality(TransitiveDependents(db[1].dependencies, last'.id) \cup {last'.id}) + 1
           /\ NoAppendFailed(trace'[1])
                => DOMAIN db'[1].issues =
                     DOMAIN db[1].issues \
                       (TransitiveDependents(db[1].dependencies, last'.id) \cup {last'.id}) ]_vars
\* a cascade over a cycle through R has removed every issue
C29_Witness ==
  /\ last.op = "delete_cascade"
  /\ trace[2].calls = 1
  /\ ~Acyclic(db[1].dependencies)
  /\ Reachable(db[1].dependencies, last.id, last.id)
  /\ DOMAIN db[1].issues = {}

\* C30: every issue a cascade or a batch delete removed from the cache is
\* listed among the successes the call returned, whichever per-issue deletion
\* of the call failed.
C30_RemovedAreListed ==
  [][ last'.op \in {"delete_cascade", "delete_batch"}
        => (DOMAIN db[1].issues \ DOMAIN db'[1].issues) \subseteq Listed(trace'[2].successes) ]_vars
C32_EmptyUpdateRejected ==
  [][ (last'.op = "update_issue" /\ trace'[1] = <<DefaultUpdate>>)
        => /\ last'.result = "EmptyUpdate"
           /\ log' = log
           /\ db' = db ]_vars
\* the empty update was passed for an issue that has a row
C32_Witness ==
  /\ last.op = "update_issue" /\ last.result = "EmptyUpdate"
  /\ trace[1] = <<DefaultUpdate>>
  /\ last.id \in DOMAIN db[1].issues
\* C40: update_issue for an id that has no row in the cache returns an error
\* and appends no event.
C40_UpdateOfMissingIssueRejected ==
  [][ (last'.op = "update_issue" /\ last'.id \notin DOMAIN db[1].issues)
        => /\ last'.result # "ok"
           /\ log' = log ]_vars
\* a blank line, as the reader of the log skips it: nothing but whitespace
Blank(line) == \A k \in 1..Len(line) : line[k] \in Whitespace
\* C33: what the merge driver prints is the set union of the non-blank lines
\* of base, local and remote, each distinct line once; it is the same for
\* every order of the three files, and a run on its own output prints it
\* again.
C33_DriverPrintsUnionOfNonBlankLines ==
  last.op = "merge_driver" =>
    LET base == trace[1][1]
        local == trace[1][2]
        remote == trace[1][3]
        out == trace[2][1]
    IN /\ LinesOf(out) =
            {l \in LinesOf(base) \cup LinesOf(local) \cup LinesOf(remote) : ~Blank(l)}
       /\ Len(out) = Cardinality(LinesOf(out))
       /\ out = driver_main(remote, local, base)
       /\ out = driver_main(local, remote, base)
       /\ out = driver_main(local, base, remote)
       /\ driver_main(out, out, out) = out
\* the byte offsets at which a line of the file ends
LineEnds(file) ==
  {FileBytes(SubSeq(file, 1, k)) : k \in {j \in 1..Len(file) : file[j].kind = "newline"}}
\* every line of the file is one whole event: an encoded event, then a newline
WholeLines(file) ==
  /\ Len(file) % 2 = 0
  /\ \A k \in 1..Len(file) : file[k].kind = IF k % 2 = 1 THEN "event" ELSE "newline"
\* C34: when two processes have appended to the same log, each write call
\* being atomic, every line of the log holds exactly one complete event and
\* the offset each writer stores is the end of a line.
C34_ConcurrentAppendsKeepLines ==
  (\A p \in Procs : appenders.at[p].pc = "done")
    => /\ WholeLines(appenders.file)
       /\ \A p \in Procs : appenders.at[p].offset \in LineEnds(appenders.file)
\* C35: the dependents delete_issue(id) returns hold every issue that
\* depended on id, through one dependency row or more, when it was called.
C35_DependentsAreTransitive ==
  [][ (last'.op = "delete_issue" /\ last'.result = "ok")
        => (TransitiveDependents(db[1].dependencies, last'.id) \ {last'.id})
             \subseteq Listed(trace'[2].dependents) ]_vars
\* C36: sync(full) over a log written by successful calls of create_issue
\* (with or without a data document), update_issue, delete_issue and
\* attach_document returns without error.
C36_ServiceLogReplays ==
  last.op = "sync_full" => last.result = "ok"

\* C37: create_issue never returns an id that already has a row in the cache
\* or a Create event in the log of its copy, also after a sync has applied
\* Create events written by another collaborator or after a full replay.
C37_CreatedIdIsNew ==
  [][ (last'.op = "create_issue" /\ last'.result = "ok")
        => /\ last'.id \notin DOMAIN db[last'.copy].issues
           /\ last'.id \notin CreatedIn(log[last'.copy]) ]_vars

\* the log without the deletion events that repeat an earlier deletion of
\* the same issue
IsDeletion(e) ==
  e.op = "update" /\ "status" \in DOMAIN e.data /\ e.data.status = "deleted"
RECURSIVE OnceDeleted(_, _)
OnceDeleted(lines, seen) ==
  IF lines = <<>> THEN <<>>
  ELSE IF IsDeletion(Head(lines)) /\ Head(lines).id \in seen
       THEN OnceDeleted(Tail(lines), seen)
       ELSE <<Head(lines)>> \o
            OnceDeleted(Tail(lines),
                        IF IsDeletion(Head(lines)) THEN seen \cup {Head(lines).id} ELSE seen)

\* C38: a log that holds two deletion events for the same issue replays to
\* the same rows, titles and data included, as the log that holds the first
\* of them only.
C38_RepairIsIdempotentUnderReplay ==
  (last.op = "sync_full" /\ last.result = "ok" /\ OnceDeleted(log[1], {}) # log[1])
    => db[1].issues = apply_all_events(OnceDeleted(log[1], {}), db[1], foreign_keys).db.issues

\* C39: in every reachable state, a crash between the creation of a blob
\* file and the end of its write included, each file of the blob store holds
\* bytes whose hash is the name of the file, so read_blob of that name
\* delivers the content the name was computed from.
C39_BlobFilesMatchTheirNames ==
  \A b \in blobs[1] :
    /\ calculate_hash(b.content) = b.hash
    /\ read_blob(blobs[1], b.hash).content = b.hash[2]

====
